---- MODULE Spec2Model ----
(***************************************************************************)
(* A model of edan's index-construction and growth-contribution engine:    *)
(* the index formula library (edan/indices.py), the NIPA contribution and  *)
(* share features (edan/nipa/features.py) and the aggregate chain-weighter *)
(* (edan/nipa/aggr.py).                                                    *)
(*                                                                         *)
(* numpy's float arithmetic is modelled exactly: a finite number is a      *)
(* quotient of two sums of rational multiples of radical monomials         *)
(* (products of primes raised to rational exponents in (0,1)), so that     *)
(* np.sqrt, np.power, np.log and np.exp of rational data stay exact; the   *)
(* IEEE values nan, inf and -inf are kept as such.  Rounding error is not  *)
(* modelled.                                                               *)
(***************************************************************************)
EXTENDS Integers, Sequences, FiniteSets, TLC

(***************************************************************************)
(* The arithmetic is one recursive evaluator, Eval: each operator below    *)
(* that is defined as Eval("Name", <<arguments>>) has its body in the arm  *)
(* of Eval with that name.                                                 *)
(***************************************************************************)
RECURSIVE Eval(_, _)

(***************************************************************************)
(* Rationals: <<n, d>> with d > 0 and gcd(n, d) = 1.                       *)
(***************************************************************************)
Abs(x) == IF x < 0 THEN -x ELSE x

GCD(a, b) == Eval("GCD", <<a, b>>)

QNorm(n, d) == Eval("QNorm", <<n, d>>)

QZero == <<0, 1>>
QOne == <<1, 1>>
QInt(k) == <<k, 1>>
QNeg(a) == <<-a[1], a[2]>>
QAdd(a, b) == Eval("QAdd", <<a, b>>)
QSub(a, b) == Eval("QSub", <<a, b>>)
QMul(a, b) == Eval("QMul", <<a, b>>)
QInv(a) == Eval("QInv", <<a>>)
QDiv(a, b) == Eval("QDiv", <<a, b>>)
QSign(a) == IF a[1] > 0 THEN 1 ELSE IF a[1] < 0 THEN -1 ELSE 0
QLt(a, b) == Eval("QLt", <<a, b>>)
QFloor(a) == a[1] \div a[2]
QFrac(a) == Eval("QFrac", <<a>>)

IPow(b, k) == Eval("IPow", <<b, k>>)

QIPow(a, k) == Eval("QIPow", <<a, k>>)

(***************************************************************************)
(* Prime factorisation and exponent vectors.  An exponent vector is a set  *)
(* of <<prime, exponent>> pairs with nonzero rational exponents; it stands *)
(* for the product of the primes raised to their exponents (and, read      *)
(* additively, for the logarithm of that product).                         *)
(***************************************************************************)
LeastFactor(n, p) == Eval("LeastFactor", <<n, p>>)

Multiplicity(n, p) == Eval("Multiplicity", <<n, p>>)

FactorZ(n) == Eval("FactorZ", <<n>>)

EVGet(v, p) ==
    IF \E x \in v : x[1] = p THEN (CHOOSE x \in v : x[1] = p)[2] ELSE QZero
EVPrimes(v) == {x[1] : x \in v}
EVAdd(u, v) == Eval("EVAdd", <<u, v>>)
EVScale(v, q) == Eval("EVScale", <<v, q>>)
\* the exponent vector of a positive rational
EVOfQ(q) == Eval("EVOfQ", <<q>>)

\* the rational part of an exponent vector: the primes to the floors of
\* their exponents
EVCoef(v) == Eval("EVCoef", <<v>>)
\* the radical part: the primes to the fractional parts of their exponents
EVMono(v) == Eval("EVMono", <<v>>)

(***************************************************************************)
(* Sums of radical terms.  A term is [m |-> monomial, c |-> coefficient];  *)
(* a sum is a set of terms with distinct monomials and nonzero             *)
(* coefficients (distinct monomials are linearly independent over the      *)
(* rationals, so the representation is canonical).                         *)
(***************************************************************************)
SZero == {}
SOfQ(q) == IF q[1] = 0 THEN {} ELSE {[m |-> {}, c |-> q]}
SOne == {[m |-> {}, c |-> <<1, 1>>]}
SCoef(S, m) ==
    IF \E t \in S : t.m = m THEN (CHOOSE t \in S : t.m = m).c ELSE QZero
SAdd(A, B) == Eval("SAdd", <<A, B>>)
SScale(A, q) == Eval("SScale", <<A, q>>)
SNeg(A) == Eval("SNeg", <<A>>)
TMul(a, b) == Eval("TMul", <<a, b>>)
TInv(t) == Eval("TInv", <<t>>)
SMulT(A, b) == Eval("SMulT", <<A, b>>)
SMul(A, B) == Eval("SMul", <<A, B>>)

SPos(S) == {t \in S : t.c[1] > 0}
SNegPart(S) == Eval("SNegPart", <<S>>)
\* the sign of a sum: immediate when all coefficients agree in sign;
\* otherwise, with the sum scaled to coprime integer coefficients,
\* sign(P - N) = sign(P^2 - N^2) for the positive sums P and N,
\* which ends for sums of square roots.  The fuel guards the recursion.
SSignF(S, fuel) == Eval("SSignF", <<S, fuel>>)
SSign(S) == Eval("SSign", <<S>>)

(***************************************************************************)
(* Float values: [k |-> "fin" | "nan" | "inf" | "ninf", n, d]; a finite    *)
(* value is the quotient n / d of two sums.  The operators follow IEEE 754 *)
(* as numpy applies it (np.true_divide by zero gives inf or nan, nan       *)
(* propagates); signed zeros are not distinguished.                        *)
(***************************************************************************)
NaN == [k |-> "nan", n |-> {}, d |-> SOne]
Inf == [k |-> "inf", n |-> {}, d |-> SOne]
NInf == [k |-> "ninf", n |-> {}, d |-> SOne]
\* n / d with both sums scaled to coprime integer coefficients
SetLcm(S) == Eval("SetLcm", <<S>>)
SetGcd(S) == Eval("SetGcd", <<S>>)
Reduce(n, d) == Eval("Reduce", <<n, d>>)
Fin(n, d) == Eval("Fin", <<n, d>>)
VQ(q) == Eval("VQ", <<q>>)
VInt(i) == Eval("VInt", <<i>>)
VZero == [k |-> "fin", n |-> {}, d |-> SOne]
VOne == [k |-> "fin", n |-> SOne, d |-> SOne]
IsFin(a) == a.k = "fin"
IsNaN(a) == a.k = "nan"
IsZero(a) == a.k = "fin" /\ a.n = {}
VSign(a) == Eval("VSign", <<a>>)
SignedInf(s) == IF s > 0 THEN Inf ELSE IF s < 0 THEN NInf ELSE NaN
VNeg(a) == Eval("VNeg", <<a>>)
VAdd(a, b) == Eval("VAdd", <<a, b>>)
VSub(a, b) == Eval("VSub", <<a, b>>)
VMul(a, b) == Eval("VMul", <<a, b>>)
VDiv(a, b) == Eval("VDiv", <<a, b>>)
\* IEEE comparisons: every comparison with nan is false
VEq(a, b) == Eval("VEq", <<a, b>>)
VLt(a, b) == Eval("VLt", <<a, b>>)
VLe(a, b) == Eval("VLe", <<a, b>>)

VIPow(a, k) == Eval("VIPow", <<a, k>>)
\* a ** e for a rational exponent e (np.power, np.sqrt): exact on a single
\* radical term; a negative base with a fractional exponent is nan
VPowQ(a, e) == Eval("VPowQ", <<a, e>>)
\* a square root that returns its argument
VSqrtDropped(a) == a
VSqrt(a) == Eval("VSqrt", <<a>>)

\* np.log of a positive rational-radical term is kept as its exponent vector
\* (a rational combination of logarithms of primes); np.exp maps it back
LogTerm(a) == Eval("LogTerm", <<a>>)
ExpEV(ev) == Eval("ExpEV", <<ev>>)

\* folds over a sequence of values
VSum(s) == Eval("VSum", <<s>>)
VProd(s) == Eval("VProd", <<s>>)
VMean(s) == Eval("VMean", <<s>>)
\* np.cumprod
CumProd(s) == Eval("CumProd", <<s>>)

(***************************************************************************)
(* Periods and panels.  A period is a quarter, numbered 4 * year + (q - 1);*)
(* a panel (pandas DataFrame) is [idx |-> its period index, vals |-> its   *)
(* rows, each a sequence of one value per item column].                    *)
(***************************************************************************)
Year(t) == t \div 4
NRows(P) == Len(P.vals)
NCols(P) == IF P.vals = <<>> THEN 0 ELSE Len(P.vals[1])
Quarter(y, q) == 4 * y + (q - 1)

\* the period axes start in the last quarter of 2011, so that year 2011
\* matches one observation and year 2012 all the later ones
FirstPeriod == Quarter(2011, 4)

\* a base period: a calendar year (int) or one timestamp
YearBase(y) == [kind |-> "year", v |-> y]
StampBase(t) == [kind |-> "stamp", v |-> t]

RECURSIVE SeqOfSet(_)
\* the elements of a set of integers in increasing order
SeqOfSet(S) ==
    IF S = {} THEN <<>>
    ELSE LET x == CHOOSE x \in S : \A y \in S : x <= y
         IN  <<x>> \o SeqOfSet(S \ {x})

\* np.sum(np.multiply(u, v), axis=1) for one row; np.dot
Dot(u, v) == VSum([i \in 1..Len(u) |-> VMul(u[i], v[i])])
\* np.mean(arr[idx, :], axis=0)
ColMean(arr, locs) ==
    [j \in 1..Len(arr[1]) |-> VMean([i \in 1..Len(locs) |-> arr[locs[i]][j]])]
\* the rational a float value holds (weights used as exponents)
ValQ(a) == SCoef(a.n, {})

\* the outcome of a call: a returned series, or the exception raised.
\* `done` lists the stages the call completed before it returned or raised
Returned(s, done) == [ok |-> TRUE, err |-> "none", s |-> s, done |-> done]
Raised(e, done) == [ok |-> FALSE, err |-> e, s |-> <<>>, done |-> done]

\* _IndexRebaser.locate_base_periods: the rows of the index in the base
\* period (the empty set stands for the ValueError it raises)
locate_base_periods(index, base) ==
    {i \in 1..Len(index) :
        IF base.kind = "year" THEN Year(index[i]) = base.v ELSE index[i] = base.v}

\* a rebaser that takes the first base row instead of the mean of them
compute_base_value_first_row(series, index, base) ==
    series[CHOOSE i \in locate_base_periods(index, base) :
               \A j \in locate_base_periods(index, base) : i <= j]

\* _IndexRebaser.compute_base_value: np.mean of a pandas Series is
\* Series.mean, which leaves the nan rows out (skipna)
compute_base_value(series, index, base) ==
    LET locs == SeqOfSet({i \in locate_base_periods(index, base) : ~IsNaN(series[i])})
    IN  VMean([i \in 1..Len(locs) |-> series[locs[i]]])

\* the tail every chained branch shares: chain = np.cumprod(np.insert(links,
\* 0, 1)); scale = rbase.compute_base_value(chain); 100 * (chain / scale)
ChainAndRebase(links, index, base) ==
    LET chain == CumProd(<<VOne>> \o links)
    IN  IF locate_base_periods(index, base) = {}
        THEN Raised("ValueError", <<"init", "links", "chain">>)
        ELSE LET scale == compute_base_value(chain, index, base)
             IN  Returned([t \in 1..Len(chain) |-> VMul(VInt(100), VDiv(chain[t], scale))],
                          <<"init", "links", "chain", "base">>)

\* the shape every direct (chained=False) branch shares: locate the base
\* rows first, then 100 * (the value of the formula at row t) for every row
BaseLocs(index, base) == SeqOfSet(locate_base_periods(index, base))
DirectSeries(values, index, base) ==
    IF locate_base_periods(index, base) = {}
    THEN Raised("ValueError", <<"init">>)
    ELSE Returned([t \in 1..Len(values) |-> VMul(VInt(100), values[t])],
                  <<"init", "base", "links">>)

\* the constructor without its comparison of the two period axes
IndexConstructorInitNoAxisCheck(P, Q, mtype) ==
    IF mtype \notin {"price", "quantity"} THEN "ValueError"
    ELSE IF NCols(P) # NCols(Q) THEN "ValueError"
    ELSE "none"

\* _IndexConstructor.__init__: the checks, in the code's order
IndexConstructorInit(P, Q, mtype) ==
    IF mtype \notin {"price", "quantity"} THEN "ValueError"
    ELSE IF NCols(P) # NCols(Q) THEN "ValueError"
    ELSE IF P.idx # Q.idx THEN "ValueError"
    ELSE "none"

(***************************************************************************)
(* The weighted index constructors.  In each, parr and qarr are the price  *)
(* and quantity arrays, link(t) is the link relative of row t against row  *)
(* t - 1 (chained), and direct(t, locs) the value of row t against the     *)
(* averaged base rows locs (chained = False).                              *)
(***************************************************************************)
PaascheCompute(P, Q, mtype, chained, base) ==
    LET parr == P.vals
        qarr == Q.vals
        locs == BaseLocs(P.idx, base)
        link(t) ==
            LET numer == Dot(parr[t], qarr[t])
                denom == IF mtype = "price" THEN Dot(parr[t - 1], qarr[t])
                         ELSE Dot(parr[t], qarr[t - 1])
            IN  VDiv(numer, denom)
        direct(t) ==
            LET numer == Dot(parr[t], qarr[t])
                denom == IF mtype = "price" THEN Dot(ColMean(parr, locs), qarr[t])
                         ELSE Dot(parr[t], ColMean(qarr, locs))
            IN  VDiv(numer, denom)
    IN  IF chained
        THEN ChainAndRebase([t \in 1..(NRows(P) - 1) |-> link(t + 1)], P.idx, base)
        ELSE DirectSeries([t \in 1..NRows(P) |-> direct(t)], P.idx, base)

LaspeyresCompute(P, Q, mtype, chained, base) ==
    LET parr == P.vals
        qarr == Q.vals
        locs == BaseLocs(P.idx, base)
        link(t) ==
            LET denom == Dot(parr[t - 1], qarr[t - 1])
                numer == IF mtype = "price" THEN Dot(parr[t], qarr[t - 1])
                         ELSE Dot(parr[t - 1], qarr[t])
            IN  VDiv(numer, denom)
        direct(t) ==
            LET pb == ColMean(parr, locs)
                qb == ColMean(qarr, locs)
                denom == Dot(pb, qb)
                numer == IF mtype = "price" THEN Dot(parr[t], qb) ELSE Dot(pb, qarr[t])
            IN  VDiv(numer, denom)
    IN  IF chained
        THEN ChainAndRebase([t \in 1..(NRows(P) - 1) |-> link(t + 1)], P.idx, base)
        ELSE DirectSeries([t \in 1..NRows(P) |-> direct(t)], P.idx, base)

FisherCompute(P, Q, mtype, chained, base) ==
    LET parr == P.vals
        qarr == Q.vals
        locs == BaseLocs(P.idx, base)
        link(t) ==
            LET pt_qt == Dot(parr[t], qarr[t])
                ptm1_qt == Dot(parr[t - 1], qarr[t])
                pt_qtm1 == Dot(parr[t], qarr[t - 1])
                ptm1_qtm1 == Dot(parr[t - 1], qarr[t - 1])
                paasche == IF mtype = "price" THEN VDiv(pt_qt, ptm1_qt)
                           ELSE VDiv(pt_qt, pt_qtm1)
                laspeyres == IF mtype = "price" THEN VDiv(pt_qtm1, ptm1_qtm1)
                             ELSE VDiv(ptm1_qt, ptm1_qtm1)
            IN  VSqrt(VMul(paasche, laspeyres))
        direct(t) ==
            LET pb == ColMean(parr, locs)
                qb == ColMean(qarr, locs)
                pt_qt == Dot(parr[t], qarr[t])
                pb_qt == Dot(pb, qarr[t])
                pt_qb == Dot(parr[t], qb)
                pb_qb == Dot(pb, qb)
                paasche == IF mtype = "price" THEN VDiv(pt_qt, pb_qt)
                           ELSE VDiv(pt_qt, pt_qb)
                laspeyres == IF mtype = "price" THEN VDiv(pt_qb, pb_qb)
                             ELSE VDiv(pb_qt, pb_qb)
            IN  VSqrt(VMul(paasche, laspeyres))
    IN  IF chained
        THEN ChainAndRebase([t \in 1..(NRows(P) - 1) |-> link(t + 1)], P.idx, base)
        ELSE DirectSeries([t \in 1..NRows(P) |-> direct(t)], P.idx, base)

RECURSIVE EVSum(_)
EVSum(s) == IF s = <<>> THEN {} ELSE EVAdd(Head(s), EVSum(Tail(s)))

\* always chained
TornqvistCompute(P, Q, mtype, base) ==
    LET parr == P.vals
        qarr == Q.vals
        locs == BaseLocs(P.idx, base)
        N == NCols(P)
        link(t) ==
            LET tot_t == Dot(parr[t], qarr[t])
                tot_tm1 == Dot(parr[t - 1], qarr[t - 1])
                weight_t(i) == VDiv(VMul(parr[t][i], qarr[t][i]), tot_t)
                weight_tm1(i) == VDiv(VMul(parr[t - 1][i], qarr[t - 1][i]), tot_tm1)
                weights(i) == VAdd(VMul(VQ(<<1, 2>>), weight_t(i)),
                                   VMul(VQ(<<1, 2>>), weight_tm1(i)))
                paths(i) == IF mtype = "price" THEN LogTerm(VDiv(parr[t][i], parr[t - 1][i]))
                            ELSE LogTerm(VDiv(qarr[t][i], qarr[t - 1][i]))
                log_links == EVSum([i \in 1..N |-> EVScale(paths(i), ValQ(weights(i)))])
                rel(i) == IF mtype = "price" THEN VDiv(parr[t][i], parr[t - 1][i])
                          ELSE VDiv(qarr[t][i], qarr[t - 1][i])
            IN  \* np.log of a negative or undefined relative is nan
                IF \E i \in 1..N : ~IsFin(rel(i)) \/ VSign(rel(i)) <= 0
                      \/ ~IsFin(weights(i))
                THEN NaN ELSE ExpEV(log_links)
    IN  ChainAndRebase([t \in 1..(NRows(P) - 1) |-> link(t + 1)], P.idx, base)

WalshCompute(P, Q, mtype, chained, base) ==
    LET parr == P.vals
        qarr == Q.vals
        locs == BaseLocs(P.idx, base)
        N == NCols(P)
        link(t) ==
            LET weights == [i \in 1..N |->
                                IF mtype = "price" THEN VSqrt(VMul(qarr[t][i], qarr[t - 1][i]))
                                ELSE VSqrt(VMul(parr[t][i], parr[t - 1][i]))]
                paths == IF mtype = "price" THEN parr[t] ELSE qarr[t]
                scales == IF mtype = "price" THEN parr[t - 1] ELSE qarr[t - 1]
            IN  VDiv(Dot(paths, weights), Dot(scales, weights))
        direct(t) ==
            LET pb == ColMean(parr, locs)
                qb == ColMean(qarr, locs)
                weights == [i \in 1..N |->
                                IF mtype = "price" THEN VSqrt(VMul(qarr[t][i], qb[i]))
                                ELSE VSqrt(VMul(parr[t][i], pb[i]))]
                paths == IF mtype = "price" THEN parr[t] ELSE qarr[t]
                scales == IF mtype = "price" THEN pb ELSE qb
            IN  VDiv(Dot(paths, weights), Dot(scales, weights))
    IN  IF chained
        THEN ChainAndRebase([t \in 1..(NRows(P) - 1) |-> link(t + 1)], P.idx, base)
        ELSE DirectSeries([t \in 1..NRows(P) |-> direct(t)], P.idx, base)

GeometricCompute(P, Q, mtype, chained, base) ==
    LET parr == P.vals
        qarr == Q.vals
        locs == BaseLocs(P.idx, base)
        N == NCols(P)
        link(t) ==
            LET tot == Dot(parr[t - 1], qarr[t - 1])
                weights(i) == VDiv(VMul(parr[t - 1][i], qarr[t - 1][i]), tot)
                paths(i) == IF mtype = "price" THEN VDiv(parr[t][i], parr[t - 1][i])
                            ELSE VDiv(qarr[t][i], qarr[t - 1][i])
            IN  VProd([i \in 1..N |-> VPowQ(paths(i), ValQ(weights(i)))])
        direct(t) ==
            LET pb == ColMean(parr, locs)
                qb == ColMean(qarr, locs)
                weights(i) == VDiv(VMul(pb[i], qb[i]), Dot(pb, qb))
                paths(i) == IF mtype = "price" THEN VDiv(parr[t][i], pb[i])
                            ELSE VDiv(qarr[t][i], qb[i])
            IN  VProd([i \in 1..N |-> VPowQ(paths(i), ValQ(weights(i)))])
    IN  IF chained
        THEN ChainAndRebase([t \in 1..(NRows(P) - 1) |-> link(t + 1)], P.idx, base)
        ELSE DirectSeries([t \in 1..NRows(P) |-> direct(t)], P.idx, base)

VecAdd(u, v) == [i \in 1..Len(u) |-> VAdd(u[i], v[i])]

MarshallEdgeworthCompute(P, Q, mtype, chained, base) ==
    LET parr == P.vals
        qarr == Q.vals
        locs == BaseLocs(P.idx, base)
        link(t) ==
            LET weights == IF mtype = "price" THEN VecAdd(qarr[t], qarr[t - 1])
                           ELSE VecAdd(parr[t], parr[t - 1])
                numer == IF mtype = "price" THEN Dot(parr[t], weights)
                         ELSE Dot(qarr[t], weights)
                denom == IF mtype = "price" THEN Dot(parr[t - 1], weights)
                         ELSE Dot(qarr[t - 1], weights)
            IN  VDiv(numer, denom)
        direct(t) ==
            LET pb == ColMean(parr, locs)
                qb == ColMean(qarr, locs)
                weights == IF mtype = "price" THEN VecAdd(qarr[t], qb)
                           ELSE VecAdd(parr[t], pb)
                numer == IF mtype = "price" THEN Dot(parr[t], weights)
                         ELSE Dot(qarr[t], weights)
                denom == IF mtype = "price" THEN Dot(pb, weights) ELSE Dot(qb, weights)
            IN  VDiv(numer, denom)
    IN  IF chained
        THEN ChainAndRebase([t \in 1..(NRows(P) - 1) |-> link(t + 1)], P.idx, base)
        ELSE DirectSeries([t \in 1..NRows(P) |-> direct(t)], P.idx, base)

(***************************************************************************)
(* The unweighted index constructors, on one data panel D.                 *)
(***************************************************************************)
VecDiv(u, v) == [i \in 1..Len(u) |-> VDiv(u[i], v[i])]
VecRecip(u) == [i \in 1..Len(u) |-> VDiv(VOne, u[i])]

CarliCompute(D, chained, base) ==
    LET arr == D.vals
        locs == BaseLocs(D.idx, base)
        link(t) == VMean(VecDiv(arr[t], arr[t - 1]))
        direct(t) == VMean(VecDiv(arr[t], ColMean(arr, locs)))
    IN  IF chained
        THEN ChainAndRebase([t \in 1..(NRows(D) - 1) |-> link(t + 1)], D.idx, base)
        ELSE DirectSeries([t \in 1..NRows(D) |-> direct(t)], D.idx, base)

DutotCompute(D, chained, base) ==
    LET arr == D.vals
        locs == BaseLocs(D.idx, base)
        link(t) == VDiv(VSum(arr[t]), VSum(arr[t - 1]))
        direct(t) == VDiv(VSum(arr[t]), VSum(ColMean(arr, locs)))
    IN  IF chained
        THEN ChainAndRebase([t \in 1..(NRows(D) - 1) |-> link(t + 1)], D.idx, base)
        ELSE DirectSeries([t \in 1..NRows(D) |-> direct(t)], D.idx, base)

\* links = np.power(prod, arr.shape[1]): the product of the relatives is
\* raised to the number of columns
JevonsExponent(ncols) == QInt(ncols)
JevonsCompute(D, chained, base) ==
    LET arr == D.vals
        locs == BaseLocs(D.idx, base)
        link(t) == VPowQ(VProd(VecDiv(arr[t], arr[t - 1])), JevonsExponent(NCols(D)))
        direct(t) ==
            VPowQ(VProd(VecDiv(arr[t], ColMean(arr, locs))), JevonsExponent(NCols(D)))
    IN  IF chained
        THEN ChainAndRebase([t \in 1..(NRows(D) - 1) |-> link(t + 1)], D.idx, base)
        ELSE DirectSeries([t \in 1..NRows(D) |-> direct(t)], D.idx, base)

HarmonicMeanCompute(D, chained, base) ==
    LET arr == D.vals
        locs == BaseLocs(D.idx, base)
        link(t) == VDiv(VOne, VMean(VecDiv(arr[t - 1], arr[t])))
        direct(t) == VDiv(VOne, VMean(VecDiv(ColMean(arr, locs), arr[t])))
    IN  IF chained
        THEN ChainAndRebase([t \in 1..(NRows(D) - 1) |-> link(t + 1)], D.idx, base)
        ELSE DirectSeries([t \in 1..NRows(D) |-> direct(t)], D.idx, base)

\* chained: chain = np.cumprod(np.sqrt(np.insert(links, 0, 1))); the direct
\* branch returns 100 * carli / harmmean of the sums, with no square root
CSWDCompute(D, chained, base) ==
    LET arr == D.vals
        locs == BaseLocs(D.idx, base)
        link(t) ==
            LET carli_terms == VecDiv(arr[t], arr[t - 1])
            IN  VSqrt(VDiv(VSum(carli_terms), VSum(VecRecip(carli_terms))))
        direct(t) ==
            LET carli_terms == VecDiv(arr[t], ColMean(arr, locs))
            IN  VDiv(VSum(carli_terms), VSum(VecRecip(carli_terms)))
    IN  IF chained
        THEN ChainAndRebase([t \in 1..(NRows(D) - 1) |-> link(t + 1)], D.idx, base)
        ELSE DirectSeries([t \in 1..NRows(D) |-> direct(t)], D.idx, base)

HarmonicRatioCompute(D, chained, base) ==
    LET arr == D.vals
        locs == BaseLocs(D.idx, base)
        link(t) == VDiv(VSum(VecRecip(arr[t - 1])), VSum(VecRecip(arr[t])))
        direct(t) == VDiv(VSum(VecRecip(ColMean(arr, locs))), VSum(VecRecip(arr[t])))
    IN  IF chained
        THEN ChainAndRebase([t \in 1..(NRows(D) - 1) |-> link(t + 1)], D.idx, base)
        ELSE DirectSeries([t \in 1..NRows(D) |-> direct(t)], D.idx, base)

(***************************************************************************)
(* edan codes (edan/delims.py).  A code is a sequence of characters: the   *)
(* identifiers of nested components joined by the delimiters ':' and, for  *)
(* a component that is subtracted from its parent, '~'.                    *)
(***************************************************************************)
edan_delimiters == {":", "~"}

Range(s) == {s[i] : i \in 1..Len(s)}

RECURSIVE Elements(_)
\* EdanCode.__init__: the identifiers (re.split) interleaved with the
\* delimiters (re.findall), each element a sequence of characters
Elements(code) ==
    IF code = <<>> THEN << <<>> >>
    ELSE LET rest == Elements(Tail(code))
         IN  IF Head(code) \in edan_delimiters
             THEN << <<>>, <<Head(code)>> >> \o rest
             ELSE << <<Head(code)>> \o rest[1] >> \o Tail(rest)

RECURSIVE Flatten(_)
\* the concatenation of a sequence of sequences (''.join, list building)
Flatten(ss) == IF ss = <<>> THEN <<>> ELSE Head(ss) \o Flatten(Tail(ss))

\* EdanCode.__len__: the number of identifiers
CodeLen(code) == (Len(Elements(code)) + 1) \div 2
\* EdanCode.delims
CodeDelims(code) ==
    [i \in 1..(Len(Elements(code)) \div 2) |-> Elements(code)[2 * i][1]]
\* EdanCode.__getitem__ for the slice [:stop] with stop > 0
CodeHead(code, stop) ==
    LET elms == Elements(code)
        last == IF 2 * stop - 1 < Len(elms) THEN 2 * stop - 1 ELSE Len(elms)
    IN  Flatten(SubSeq(elms, 1, last))

\* a test on characters: the string parent begins the string child
containsCharacterwise(parent, child) ==
    Len(parent) <= Len(child) /\ SubSeq(child, 1, Len(parent)) = parent

\* delims.contains: child is descended from parent
contains(parent, child) == Eval("contains", <<parent, child>>)

(***************************************************************************)
(* Components (edan/core/components.py).  A registry holds, for each code, *)
(* the component ([kind |-> "stock" | "flow" | "balance", level, subs])    *)
(* and its measures: data[code][mtype] is a series [idx |-> periods,       *)
(* vals |-> values].                                                       *)
(***************************************************************************)
\* Component.is_less: relative to the code rel, or by the code's own last
\* delimiter when rel is empty
is_less(code, rel) ==
    IF rel # <<>>
    THEN IF "~" \notin Range(code) THEN FALSE
         ELSE IF contains(rel, code) THEN "~" \notin Range(rel)
         ELSE FALSE
    ELSE LET delims == CodeDelims(code)
         IN  delims # <<>> /\ delims[Len(delims)] = "~"

\* Component.elemental
elemental(reg, code) == reg.comps[code].subs = <<>>

RECURSIVE recursive_level(_, _, _)
\* Disaggregator.recursive_level
recursive_level(reg, code, level) ==
    LET comp == reg.comps[code]
    IN  IF comp.level < level
        THEN IF elemental(reg, code) THEN <<code>>
             ELSE Flatten([i \in 1..Len(comp.subs) |->
                              recursive_level(reg, comp.subs[i], level)])
        ELSE IF comp.level = level THEN <<code>>
        ELSE <<>>

\* Disaggregator.__init__ for subs '' or True (code selections are not
\* drawn): [err, subs]
Disaggregator(reg, code, subs, level) ==
    IF subs # "" /\ level # 0 THEN [err |-> "ValueError", subs |-> <<>>]
    ELSE IF subs # "" THEN [err |-> "none", subs |-> reg.comps[code].subs]
    ELSE IF level # 0
    THEN [err |-> "none",
          subs |-> recursive_level(reg, code, level + reg.comps[code].level)]
    ELSE [err |-> "none", subs |-> reg.comps[code].subs]

\* Component.disaggregate
disaggregate(reg, code, subs, level) == Eval("disaggregate", <<reg, code, subs, level>>)

\* Component.__getattr__: the component has a series of this measure
HasMeasure(reg, code, mtype) == mtype \in DOMAIN reg.data[code]

(***************************************************************************)
(* pandas alignment                                                        *)
(***************************************************************************)
\* the value of a series at a period, nan where it has no observation
At(series, p) ==
    IF \E i \in 1..Len(series.idx) : series.idx[i] = p
    THEN series.vals[CHOOSE i \in 1..Len(series.idx) : series.idx[i] = p]
    ELSE NaN

\* pd.concat(frames, axis='columns'): the union of the period indexes
Concat(frames) == Eval("Concat", <<frames>>)

\* the rows of a frame picked by a set of row numbers, in order
Rows(P, keep) ==
    LET locs == SeqOfSet(keep)
    IN  [idx |-> [r \in 1..Len(locs) |-> P.idx[locs[r]]],
         vals |-> [r \in 1..Len(locs) |-> P.vals[locs[r]]]]

\* DataFrame.dropna(axis='index', how='all')
DropNaAll(P) == Eval("DropNaAll", <<P>>)
\* DataFrame.dropna(axis='index')
DropNaAny(P) == Eval("DropNaAny", <<P>>)

\* a binary operation of two pandas Series: aligned on the union of the
\* indexes
SeriesDiv(a, b) == Eval("SeriesDiv", <<a, b>>)

(***************************************************************************)
(* Transforms of a series (edan/aggregates/transformations.py) with the    *)
(* default lag n = 1 and h the number of periods per year.                 *)
(***************************************************************************)
periods_per_year == 4

\* a shift that fills the first k periods with the first observation
ShiftBackfilled(vals, k) == [t \in 1..Len(vals) |-> IF t > k THEN vals[t - k] ELSE vals[1]]

\* Series.shift(k)
Shift(vals, k) == [t \in 1..Len(vals) |-> IF t > k THEN vals[t - k] ELSE NaN]

\* the names registered in series_transforms, and those of them whose
\* values are rational in the data (the log changes are not)
RegisteredTransforms ==
    {"diff", "diff%", "diffl", "difa", "difa%", "difal", "difv", "difv%", "difvl",
     "movv", "mova", "movt", "yryr", "yryr%", "yryrl"}
TransformMethods ==
    {"diff", "diff%", "difa", "difa%", "difv", "difv%", "movv", "mova", "movt",
     "yryr", "yryr%"}

\* Series.rolling(n).sum(): undefined until n observations are in the window
RollingSum(vals, n) ==
    [t \in 1..Len(vals) |->
        IF t < n \/ \E j \in 0..(n - 1) : IsNaN(vals[t - j]) THEN NaN
        ELSE VSum([j \in 1..n |-> vals[t - (j - 1)]])]

\* series_transforms[method](s, n, h), for h a multiple of n
series_transforms(vals, method, n, h) ==
    LET lag == IF method \in {"yryr", "yryr%"} THEN h ELSE n
        prev == Shift(vals, lag)
        diff(t) == VSub(vals[t], prev[t])
        ratio(t) == VDiv(vals[t], prev[t])
        annual == VDiv(VInt(h), VInt(n))
        rolled == RollingSum(vals, n)
    IN  [t \in 1..Len(vals) |->
            CASE method \in {"diff", "yryr"} -> diff(t)
              [] method = "difa" -> VMul(annual, diff(t))
              [] method = "difv" -> VDiv(diff(t), VInt(n))
              [] method \in {"diff%", "yryr%"} -> VMul(VInt(100), VSub(ratio(t), VOne))
              [] method \in {"difa%", "difv%"} ->
                    VMul(VInt(100), VSub(VIPow(ratio(t), h \div n), VOne))
              [] method = "movv" -> VDiv(rolled[t], VInt(n))
              [] method = "mova" -> VMul(VInt(h), VDiv(rolled[t], VInt(n)))
              [] method = "movt" -> rolled[t]]

\* TransformationAccessor.__transform__ for a string method: [err, vals];
\* 'index' without a base and an unregistered name raise
transform(vals, method) == Eval("transform", <<vals, method>>)

\* column j of an array of rows
ColumnOf(arr, j) == [t \in 1..Len(arr) |-> arr[t][j]]

(***************************************************************************)
(* Contributions and shares (edan/nipa/features.py).  A call returns       *)
(* [ok, err, cols, idx, vals] (the table: column codes, period index,      *)
(* rows) together with what it computed on the way: the gathered           *)
(* components, their real changes and their shares.                        *)
(***************************************************************************)
FeatureRaised(e) ==
    [ok |-> FALSE, err |-> e, cols |-> <<>>, idx |-> <<>>, vals |-> <<>>,
     components |-> <<>>, real_chg |-> <<>>, shares |-> <<>>]
FeatureReturned(cols, idx, vals, components, real_chg, shares) ==
    [ok |-> TRUE, err |-> "none", cols |-> cols, idx |-> idx, vals |-> vals,
     components |-> components, real_chg |-> real_chg, shares |-> shares]

\* _Contribution._gather_subs_collect_ctypes (through the cached comps and
\* subs properties): the aggregate and the selected components, balance
\* components replaced by their children; the stock and flow indicators
\* and the balance signs
gather_subs_collect_ctypes(reg, agg, subs, level) == Eval("gather_subs_collect_ctypes", <<reg, agg, subs, level>>)

\* the measure _data reads for a flow component: mtype + '_level'
LevelMeasure(mtype) ==
    CASE mtype = "real" -> "real_level"
      [] mtype = "nominal" -> "nominal_level"
      [] OTHER -> "price_level"

\* _Contribution._data: [err, idx, vals]
contribution_data(reg, g, mtype) == Eval("contribution_data", <<reg, g, mtype>>)

\* _create_stock_balance_indices, with positions counted from 1
create_stock_balance_indices(bal) == Eval("create_stock_balance_indices", <<bal>>)

\* _create_balance_groups: for each balance component the columns from its
\* leading additive child up to (not including) the next stock column or
\* leading additive child
create_balance_groups(bal) == Eval("create_balance_groups", <<bal>>)

\* _Contribution._apply_balances with the default aggregation (np.sum)
apply_balances(arr, bals) == Eval("apply_balances", <<arr, bals>>)

\* the shares with the sign of the subtractive children left as it is
KeepSigns(shares, bals) == shares

\* shares[:, self.bals == -1] = -shares[:, self.bals == -1]
FlipSubtractive(shares, bals) ==
    [t \in 1..Len(shares) |->
        [j \in 1..Len(bals) |->
            IF bals[j] = -1 THEN VNeg(shares[t][j]) ELSE shares[t][j]]]

\* a real change that is the first difference for every kind of component
RealChangeFirstDifference(real, stocks, flows) ==
    [t \in 1..Len(real) |->
        [j \in 1..Len(stocks) |->
            IF t >= 2 THEN VSub(real[t][j], real[t - 1][j]) ELSE NaN]]

\* real_chg of _RealContribution.shares: the first difference of a stock,
\* the second difference of a flow
RealChange(real, stocks, flows) == Eval("RealChange", <<real, stocks, flows>>)

\* a share left as the quotient gave it
ShareAsDivided(x) == x
\* shares[np.isnan(shares)] = 0
ZeroIfNaN(x) == IF IsNaN(x) THEN VZero ELSE x

\* _RealContribution.shares: [err, real_chg, shares, raw], raw being the
\* shares before the signs are flipped and the balances applied
RealShares(reg, g) == Eval("RealShares", <<reg, g>>)

\* a column of ones over the periods of a series
Ones(code, series) ==
    FeatureReturned(<<code>>, series.idx, [t \in 1..Len(series.idx) |-> <<VOne>>],
                    <<>>, <<>>, <<>>)

\* pd.DataFrame(values, index=idx, columns=cols): the shape must fit
DataFrame(vals, idx, cols, components, real_chg, shares) ==
    IF Len(vals) # Len(idx) THEN FeatureRaised("ValueError")
    ELSE IF \E t \in 1..Len(vals) : Len(vals[t]) # Len(cols)
    THEN FeatureRaised("ValueError")
    ELSE FeatureReturned(cols, idx, vals, components, real_chg, shares)

\* _RealContribution(agg, subs, level).compute(method)
RealContribution(reg, agg, subs, level, method) == Eval("RealContribution", <<reg, agg, subs, level, method>>)

\* nominal shares taken in the period before the one the inflation ends in
nom_sharesOfPriorPeriod(nominal) ==
    [t \in 1..(Len(nominal) - 1) |->
        [j \in 1..Len(nominal[t]) |-> VDiv(nominal[t][j], nominal[t][1])]]

\* nom_shares = np.true_divide(nominal[1:], nominal[1:, 0][:, np.newaxis])
nom_shares(nominal) == Eval("nom_shares", <<nominal>>)

\* _PriceContribution.weighted_inflation: [err, vals, weighted], weighted
\* being the weighted rates, signs flipped, before the first row is added
\* and the balances are applied
weighted_inflation(reg, g) == Eval("weighted_inflation", <<reg, g>>)

\* _PriceContribution.initial_price_index: [err, vals]
initial_price_index(reg, g) == Eval("initial_price_index", <<reg, g>>)

\* transform(contr_df, method) of a table, column by column: [err, vals]
TransformFrame(vals, width, method) == Eval("TransformFrame", <<vals, width, method>>)

\* _PriceContribution.compute up to prices = np.multiply(rpath, init_price),
\* the table the transform is applied to: [err, vals]
price_path(reg, g) == Eval("price_path", <<reg, g>>)

\* _PriceContribution(agg, subs, level).compute(method)
PriceContribution(reg, agg, subs, level, method) == Eval("PriceContribution", <<reg, agg, subs, level, method>>)

\* Contribution.__call__
ContributionCompute(reg, agg, subs, level, mtype, method) == Eval("ContributionCompute", <<reg, agg, subs, level, mtype, method>>)

\* a share table whose aggregate column is a ratio like the others
ShareCellRatio(row, j) == VDiv(row[j], row[1])

\* shares[:, 0] = np.ones(...); shares[:, 1:] = data[:, 1:] / data[:, :1]
ShareCell(row, j) == IF j = 1 THEN VOne ELSE VDiv(row[j], row[1])

\* Share.compute
ShareCompute(reg, obj, subs, level, mtype) == Eval("ShareCompute", <<reg, obj, subs, level, mtype>>)

(***************************************************************************)
(* Aggregation of components into a synthetic one (edan/nipa/aggr.py).     *)
(***************************************************************************)
\* the year both _chain and compute_quantity_index take as base
base_year == 2012

\* ChainWeighter._set_ctypes_and_data: [err, idx, real, price, less]
set_ctypes_and_data(reg, objs) == Eval("set_ctypes_and_data", <<reg, objs>>)

\* chain weights that are the Fisher links of the prices
compute_chained_weightsOfPrices(real, price) ==
    [t \in 1..Len(real) |->
        IF t = 1 THEN VOne
        ELSE VSqrt(VMul(VDiv(Dot(real[t], price[t]), Dot(real[t], price[t - 1])),
                        VDiv(Dot(real[t - 1], price[t]), Dot(real[t - 1], price[t - 1]))))]

\* ChainWeighter._compute_chained_weights: 1, then the Fisher links
compute_chained_weights(real, price) == Eval("compute_chained_weights", <<real, price>>)

\* the base weight taken at the first base-year row instead of the mean
WeightBaseFirstRow(weight_path, base_locs) ==
    IF base_locs = <<>> THEN NaN ELSE weight_path[base_locs[1]]

\* weight_base = np.mean(weight_path[base_locs])
WeightBase(weight_path, base_locs) ==
    VMean([i \in 1..Len(base_locs) |-> weight_path[base_locs[i]]])

\* ChainWeighter._chain: the real level of the aggregate
chain(idx, real, weights) == Eval("chain", <<idx, real, weights>>)

\* compute_quantity_index(nominal, price): [err, idx, vals]
compute_quantity_index(nominal, price) == Eval("compute_quantity_index", <<nominal, price>>)

AggregateRaised(e) ==
    [ok |-> FALSE, err |-> e, subs |-> <<>>, weights |-> <<>>,
     nominal |-> [idx |-> <<>>, vals |-> <<>>], real |-> [idx |-> <<>>, vals |-> <<>>],
     price |-> [idx |-> <<>>, vals |-> <<>>], quantity |-> [idx |-> <<>>, vals |-> <<>>]]

\* aggregate_nipa(objs): the synthetic component's four series
AggregateNipa(reg, objs) == Eval("AggregateNipa", <<reg, objs>>)

(***************************************************************************)
(* The component trees and the data the features are called upon.  Every   *)
(* series is quarterly and starts, unless the data set says otherwise, in  *)
(* the last quarter of 2011.                                               *)
(***************************************************************************)
\* the number of periods of a fully observed series
FeaturePeriods == 4

Shapes == {"full", "flat", "lone", "elemental", "nested"}
DataSets == {"additive", "priced", "chained2012", "gaps", "lateagg", "zero", "after2012"}

RootCode == <<"a">>
SubCode(parent, delim, id) == parent \o <<delim, id>>
BalanceCode == SubCode(RootCode, ":", "x")

\* the tree of a shape: code :> [kind, level, subs]
Tree(shape) ==
    LET c == SubCode(RootCode, ":", "c")
        d == SubCode(RootCode, ":", "d")
        f == SubCode(RootCode, ":", "f")
        e == SubCode(BalanceCode, ":", "e")
        m == SubCode(BalanceCode, "~", "m")
        y == SubCode(BalanceCode, ":", "y")
        g == SubCode(y, ":", "g")
        h == SubCode(y, "~", "h")
        leaf(kind, level) == [kind |-> kind, level |-> level, subs |-> <<>>]
        root(subs) == [kind |-> "stock", level |-> 0, subs |-> subs]
    IN  CASE shape = "full" ->
               (RootCode :> root(<<c, f, BalanceCode>>))
               @@ (c :> leaf("stock", 1)) @@ (f :> leaf("flow", 1))
               @@ (BalanceCode :> [kind |-> "balance", level |-> 1, subs |-> <<e, m>>])
               @@ (e :> leaf("stock", 2)) @@ (m :> leaf("stock", 2))
          [] shape = "flat" ->
               (RootCode :> root(<<c, d>>))
               @@ (c :> leaf("stock", 1)) @@ (d :> leaf("stock", 1))
          [] shape = "lone" ->
               (RootCode :> root(<<c>>)) @@ (c :> leaf("stock", 1))
          [] shape = "nested" ->
               (RootCode :> root(<<c, BalanceCode>>))
               @@ (c :> leaf("stock", 1))
               @@ (BalanceCode :> [kind |-> "balance", level |-> 1, subs |-> <<e, y>>])
               @@ (e :> leaf("stock", 2))
               @@ (y :> [kind |-> "balance", level |-> 2, subs |-> <<g, h>>])
               @@ (g :> leaf("stock", 3)) @@ (h :> leaf("stock", 3))
          [] OTHER -> (RootCode :> root(<<>>))

\* a table continued past its end: by steps of one, or flat
Stepped(table, t) ==
    IF t <= Len(table) THEN table[t] ELSE table[Len(table)] + (t - Len(table))
Flat(table, t) == IF t <= Len(table) THEN table[t] ELSE table[Len(table)]

\* the real level of the component with identifier id at period t (of a
\* flow: the level its real flow is the change of; 99 before the first
\* period)
RealLevel(ds, id, t) ==
    IF t = 0 THEN 99
    ELSE CASE id = "c" /\ ds = "chained2012" -> Stepped(<<1, 2, 2, 3>>, t)
           [] id = "c" /\ ds = "zero" -> Stepped(<<10, 0, 15, 15>>, t)
           [] id = "c" /\ ds = "priced" -> Stepped(<<2, 2, 3, 3>>, t)
           [] id = "c" -> Stepped(<<10, 12, 15, 15>>, t)
           [] id = "d" /\ ds = "chained2012" -> Stepped(<<1, 1, 2, 2>>, t)
           [] id = "d" /\ ds = "priced" -> Stepped(<<1, 1, 1, 2>>, t)
           [] id = "d" -> Stepped(<<4, 5, 5, 7>>, t)
           [] id = "f" -> Stepped(<<100, 102, 101, 103>>, t)
           [] id = "e" -> Stepped(<<5, 6, 8, 9>>, t)
           [] OTHER -> Stepped(<<3, 3, 4, 6>>, t)

\* the price index of a component at period t
PriceLevel(ds, id, t) ==
    CASE id = "c" /\ ds = "chained2012" -> Flat(<<50, 100, 100, 100>>, t)
      [] id = "c" /\ ds = "priced" -> Flat(<<100, 110, 110, 110>>, t)
      [] id = "d" /\ ds = "priced" -> Flat(<<100, 120, 120, 120>>, t)
      [] OTHER -> 100

\* the first observed period of a component's series
FirstObserved(ds, code) ==
    IF ds = "gaps" /\ code = SubCode(RootCode, ":", "c") THEN 3
    ELSE IF ds = "lateagg" /\ code = RootCode THEN 2
    ELSE 1

\* the period the series of a data set start in: the last quarter of 2011,
\* or the first quarter of 2013 for the data that has no observation in 2012
StartPeriod(ds) == IF ds = "after2012" THEN Quarter(2013, 1) ELSE FirstPeriod

\* a series observed from period `first` on, with value(t) at period t
Observed(start, first, value(_)) ==
    [idx |-> [i \in 1..(FeaturePeriods - first + 1) |-> start + (first - 1) + (i - 1)],
     vals |-> [i \in 1..(FeaturePeriods - first + 1) |-> value(first + (i - 1))]]

RECURSIVE SignedSum(_, _, _, _, _)
\* the level, in hundredths when priced, the leaves under a component add
\* up to: a subtractive component enters negatively, a flow with its change
SignedSum(tree, ds, code, t, priced) ==
    LET comp == tree[code]
        id == code[Len(code)]
        w == IF priced THEN PriceLevel(ds, id, t) ELSE 1
    IN  IF comp.subs = <<>>
        THEN IF comp.kind = "flow"
             THEN w * (RealLevel(ds, id, t) - RealLevel(ds, id, t - 1))
             ELSE w * RealLevel(ds, id, t)
        ELSE LET part(i) == SignedSum(tree, ds, comp.subs[i], t, priced)
                 sign(i) == IF is_less(comp.subs[i], <<>>) THEN -1 ELSE 1
                 RECURSIVE upto(_)
                 upto(i) == IF i = 0 THEN 0 ELSE upto(i - 1) + sign(i) * part(i)
             IN  upto(Len(comp.subs))

\* the measures of a component: a stock has price, nominal and real; a
\* flow nominal and real and their levels; a balance nominal and real
Measures(tree, ds, code) == Eval("Measures", <<tree, ds, code>>)

\* the components of a shape with the data of a data set
Registry(shape, ds) == Eval("Registry", <<shape, ds>>)

(***************************************************************************)
(* edan/aggregates/transformations.py: the 'index' transform and the       *)
(* accessor's dispatch on the name of a method.  A base is absent ('') or  *)
(* a year or a time stamp, as for the index library.                       *)
(***************************************************************************)
NoBase == [kind |-> "none", v |-> 0]

\* Series.mean(): the mean of the values that are not nan, nan when there
\* is none
SkipNaMean(vals) == Eval("SkipNaMean", <<vals>>)

\* ReIndexer(base)(data): [err, idx, vals]
ReIndexer(data, base) == Eval("ReIndexer", <<data, base>>)

\* an accessor that falls back on its default method, 'difa%', for a name
\* that is not registered
TransformationAccessorDefaulting(data, method, n, h, base) ==
    Eval("TransformationAccessor",
         <<data,
           IF method = "index" \/ method \in RegisteredTransforms THEN method ELSE "difa%",
           n, h, base>>)

\* TransformationAccessor(data)(method, n=n, h=h, base=base) for a string
\* method; h = 0 stands for the periods per year of the data, which are
\* quarterly: [err, idx, vals]
TransformationAccessor(data, method, n, h, base) == Eval("TransformationAccessor", <<data, method, n, h, base>>)

\* modifications.py: series_mods[method](s, n, h); the functions are those
\* of series_transforms, but for 'yryr%', which is s.divide(s.shift(h)) - 1
series_mods(vals, method, n, h) == Eval("series_mods", <<vals, method, n, h>>)

\* modifications.py: ReIndexer(base)(data): [err, idx, vals]; a year with no
\* rows is a KeyError, a time stamp with no rows leaves an empty selection
\* whose mean is nan
ModificationReIndexer(data, base) == Eval("ModificationReIndexer", <<data, base>>)

\* ModificationAccessor(obj)(method, n, h, base) for a string method
ModificationAccessor(data, method, n, h, base) == Eval("ModificationAccessor", <<data, method, n, h, base>>)

\* the number of periods of the series a transform is asked of
TransformPeriods == 5

\* the series a caller starts from, observed from the last quarter of 2011
TransformData(name) == Eval("TransformData", <<name>>)

(***************************************************************************)
(* edan/delims.py: indexing of a code and concatenation of two codes.  A   *)
(* slice bound is <<>> for an omitted bound (None) and <<k>> for the       *)
(* integer k.                                                              *)
(***************************************************************************)
\* list[start:stop] of Python, for bounds that are integers or omitted
PySlice(list, start, stop) ==
    LET n == Len(list)
        clamp(k) == IF k < 0 THEN (IF n + k < 0 THEN 0 ELSE n + k)
                    ELSE (IF k > n THEN n ELSE k)
        lo == IF start = <<>> THEN 0 ELSE clamp(start[1])
        hi == IF stop = <<>> THEN n ELSE clamp(stop[1])
    IN  IF lo >= hi THEN <<>> ELSE SubSeq(list, lo + 1, hi)

\* EdanCode(code): its identifiers and its delimiters
EdanCode(code) == Eval("EdanCode", <<code>>)

\* indexing into the list of elements, delimiters included
EdanCodeItemOfElements(code, key) ==
    LET elms == Elements(code)
        pos == IF key >= 0 THEN key ELSE Len(elms) + key
    IN  IF pos < 0 \/ pos >= Len(elms) THEN [err |-> "IndexError", val |-> <<>>]
        ELSE [err |-> "none", val |-> elms[pos + 1]]

\* EdanCode.__getitem__ for an integer key: [err, val]
EdanCodeItem(code, key) == Eval("EdanCodeItem", <<code, key>>)

\* EdanCode.__getitem__ for a slice without step: the joined elements
EdanCodeSlice(code, start, stop) == Eval("EdanCodeSlice", <<code, start, stop>>)

\* concat_codes(code, other, delim): [err, val]
concat_codes(code, other, delim) == Eval("concat_codes", <<code, other, delim>>)

\* the end of Share.compute: the frames joined on their periods, the shares,
\* and pd.DataFrame(shares, index=data.index, columns=codes), which raises
\* when the labels are not as many as the columns
ShareFrame(frames, codes) == Eval("ShareFrame", <<frames, codes>>)

(***************************************************************************)
(* Aggregation trees (edan/algos.py).  An object is [level, subs]; objects *)
(* are referred to by their position in the ordered collection, and subs   *)
(* and the work stack hold positions.                                      *)
(***************************************************************************)
\* the loop of construct_tree with the test get_level(obj) < get_level(top)
pop_untilBelowOrEqual(objs, stk, obj) ==
    LET keep == {k \in 1..Len(stk) : objs[obj].level >= objs[stk[k]].level}
    IN  IF keep = {} THEN <<>>
        ELSE SubSeq(stk, 1, CHOOSE k \in keep : \A j \in keep : j <= k)
\* top = stack.pop(); while get_level(obj) <= get_level(top): top = stack.pop();
\* then stack.append(top).  The stack that is left, <<>> when a pop finds
\* the stack empty (IndexError)
pop_until(objs, stk, obj) == Eval("pop_until", <<objs, stk, obj>>)

(***************************************************************************)
(* The evaluator: the arithmetic operators' bodies, the entries to the     *)
(* index constructors, and the bodies of the operators of edan.nipa that   *)
(* are defined above as Eval("name", arguments).                           *)
(***************************************************************************)
Eval(opname, argv) ==
    CASE opname = "GCD" ->
           (LET a == argv[1] b == argv[2] IN
            IF b = 0 THEN a ELSE GCD(b, a % b))
      [] opname = "QNorm" ->
           (LET n == argv[1] d == argv[2] IN
            LET s == IF d < 0 THEN -1 ELSE 1
                g == GCD(Abs(n), Abs(d))
            IN  <<(s * n) \div g, (s * d) \div g>>)
      [] opname = "QAdd" ->
           (LET a == argv[1] b == argv[2] IN
            IF a[2] = b[2] THEN QNorm(a[1] + b[1], a[2])
            ELSE LET g == GCD(a[2], b[2])
                 IN  QNorm(a[1] * (b[2] \div g) + b[1] * (a[2] \div g), (a[2] \div g) * b[2]))
      [] opname = "QSub" ->
           (LET a == argv[1] b == argv[2] IN
            QAdd(a, QNeg(b)))
      [] opname = "QMul" ->
           (LET a == argv[1] b == argv[2] IN
            LET g1 == GCD(Abs(a[1]), b[2])
                g2 == GCD(Abs(b[1]), a[2])
            IN  QNorm((a[1] \div g1) * (b[1] \div g2), (a[2] \div g2) * (b[2] \div g1)))
      [] opname = "QInv" ->
           (LET a == argv[1] IN
            QNorm(a[2], a[1]))
      [] opname = "QDiv" ->
           (LET a == argv[1] b == argv[2] IN
            QMul(a, QInv(b)))
      [] opname = "QLt" ->
           (LET a == argv[1] b == argv[2] IN
            QSign(QSub(a, b)) < 0)
      [] opname = "QFrac" ->
           (LET a == argv[1] IN
            QSub(a, QInt(QFloor(a))))
      [] opname = "IPow" ->
           (LET b == argv[1] k == argv[2] IN
            IF k = 0 THEN 1 ELSE b * IPow(b, k - 1))
      [] opname = "QIPow" ->
           (LET a == argv[1] k == argv[2] IN
            IF k >= 0 THEN <<IPow(a[1], k), IPow(a[2], k)>>
            ELSE QNorm(IPow(a[2], -k), IPow(a[1], -k)))
      [] opname = "LeastFactor" ->
           (LET n == argv[1] p == argv[2] IN
            IF p * p > n THEN n
            ELSE IF n % p = 0 THEN p ELSE LeastFactor(n, p + 1))
      [] opname = "Multiplicity" ->
           (LET n == argv[1] p == argv[2] IN
            IF n % p = 0 THEN 1 + Multiplicity(n \div p, p) ELSE 0)
      [] opname = "FactorZ" ->
           (LET n == argv[1] IN
            IF n = 1 THEN {}
            ELSE LET p == LeastFactor(n, 2)
                     k == Multiplicity(n, p)
                 IN  {<<p, QInt(k)>>} \cup FactorZ(n \div IPow(p, k)))
      [] opname = "EVAdd" ->
           (LET u == argv[1] v == argv[2] IN
            {x \in {<<p, QAdd(EVGet(u, p), EVGet(v, p))>> : p \in EVPrimes(u) \cup EVPrimes(v)} :
                x[2][1] # 0})
      [] opname = "EVScale" ->
           (LET v == argv[1] q == argv[2] IN
            IF q[1] = 0 THEN {} ELSE {<<x[1], QMul(x[2], q)>> : x \in v})
      [] opname = "EVOfQ" ->
           (LET q == argv[1] IN
            FactorZ(q[1]) \cup EVScale(FactorZ(q[2]), QInt(-1)))
      [] opname = "EVCoef" ->
           (LET v == argv[1] IN
            IF v = {} THEN QOne
            ELSE LET x == CHOOSE x \in v : TRUE
                 IN  QMul(QIPow(QInt(x[1]), QFloor(x[2])), EVCoef(v \ {x})))
      [] opname = "EVMono" ->
           (LET v == argv[1] IN
            {y \in {<<x[1], QFrac(x[2])>> : x \in v} : y[2][1] # 0})
      [] opname = "SAdd" ->
           (LET A == argv[1] B == argv[2] IN
            {t \in {[m |-> mm, c |-> QAdd(SCoef(A, mm), SCoef(B, mm))] :
                        mm \in {t.m : t \in A \cup B}} : t.c[1] # 0})
      [] opname = "SScale" ->
           (LET A == argv[1] q == argv[2] IN
            IF q[1] = 0 THEN {} ELSE {[m |-> t.m, c |-> QMul(t.c, q)] : t \in A})
      [] opname = "SNeg" ->
           (LET A == argv[1] IN
            SScale(A, QInt(-1)))
      [] opname = "TMul" ->
           (LET a == argv[1] b == argv[2] IN
            LET ev == EVAdd(a.m, b.m)
            IN  [m |-> EVMono(ev), c |-> QMul(QMul(a.c, b.c), EVCoef(ev))])
      [] opname = "TInv" ->
           (LET t == argv[1] IN
            LET ev == EVScale(t.m, QInt(-1))
            IN  [m |-> EVMono(ev), c |-> QMul(QInv(t.c), EVCoef(ev))])
      [] opname = "SMulT" ->
           (LET A == argv[1] b == argv[2] IN
            {TMul(a, b) : a \in A})
      [] opname = "SMul" ->
           (LET A == argv[1] B == argv[2] IN
            IF B = {} THEN {}
            ELSE IF B = SOne THEN A
            ELSE LET b == CHOOSE b \in B : TRUE
                 IN  SAdd(SMulT(A, b), SMul(A, B \ {b})))
      [] opname = "SNegPart" ->
           (LET S == argv[1] IN
            SNeg({t \in S : t.c[1] < 0}))
      [] opname = "SSignF" ->
           (LET S == argv[1] fuel == argv[2] IN
            IF S = {} THEN 0
            ELSE IF \A t \in S : t.c[1] > 0 THEN 1
            ELSE IF \A t \in S : t.c[1] < 0 THEN -1
            ELSE IF fuel = 0 THEN CHOOSE s \in {} : TRUE
            ELSE LET R == Reduce(S, {}).n
                     P == SPos(R)
                     N == SNegPart(R)
                 IN  SSignF(SAdd(SMul(P, P), SNeg(SMul(N, N))), fuel - 1))
      [] opname = "SSign" ->
           (LET S == argv[1] IN
            SSignF(S, 6))
      [] opname = "Fin" ->
           (LET n == argv[1] d == argv[2] IN
            IF n = {} THEN [k |-> "fin", n |-> {}, d |-> SOne]
            ELSE IF d = SOne THEN [k |-> "fin", n |-> n, d |-> SOne]
            ELSE IF Cardinality(d) = 1
                 THEN [k |-> "fin", n |-> SMulT(n, TInv(CHOOSE t \in d : TRUE)), d |-> SOne]
            ELSE IF Cardinality(d) = 2 /\ \A t \in d : \A e \in t.m : e[2][2] = 2
                 \* a denominator of two square-root terms is rationalised:
                 \* (u + v)(u - v) = u^2 - v^2 is rational
                 THEN LET u == CHOOSE t \in d : TRUE
                          conj == (d \ {u}) \cup {[m |-> u.m, c |-> QNeg(u.c)]}
                      IN  Fin(SMul(n, conj), SMul(d, conj))
            ELSE IF Cardinality(n) = 1
                 \* keep a single-term numerator rational: c * m / d = c / (d / m)
                 THEN LET t == CHOOSE t \in n : TRUE
                      IN  Reduce(SOfQ(t.c), SMulT(d, TInv([m |-> t.m, c |-> QOne])))
            ELSE Reduce(n, d))
      [] opname = "SetLcm" ->
           (LET S == argv[1] IN
            IF S = {} THEN 1
            ELSE LET i == CHOOSE i \in S : TRUE
                     r == SetLcm(S \ {i})
                 IN  (i \div GCD(i, r)) * r)
      [] opname = "SetGcd" ->
           (LET S == argv[1] IN
            IF S = {} THEN 0
            ELSE LET i == CHOOSE i \in S : TRUE IN GCD(i, SetGcd(S \ {i})))
      [] opname = "Reduce" ->
           (LET n == argv[1] d == argv[2] IN
            LET L == SetLcm({t.c[2] : t \in n \cup d})
                G == SetGcd({Abs(t.c[1]) * (L \div t.c[2]) : t \in n \cup d})
                q == QNorm(L, G)
            IN  [k |-> "fin", n |-> SScale(n, q), d |-> SScale(d, q)])
      [] opname = "VQ" ->
           (LET q == argv[1] IN
            Fin(SOfQ(q), SOne))
      [] opname = "VInt" ->
           (LET i == argv[1] IN
            VQ(QInt(i)))
      [] opname = "VSign" ->
           (LET a == argv[1] IN
            CASE a.k = "inf" -> 1
              [] a.k = "ninf" -> -1
              [] a.k = "nan" -> 0
              [] OTHER -> SSign(a.n) * SSign(a.d))
      [] opname = "VNeg" ->
           (LET a == argv[1] IN
            CASE a.k = "inf" -> NInf
              [] a.k = "ninf" -> Inf
              [] a.k = "nan" -> NaN
              [] OTHER -> [k |-> "fin", n |-> SNeg(a.n), d |-> a.d])
      [] opname = "VAdd" ->
           (LET a == argv[1] b == argv[2] IN
            IF a.k = "nan" \/ b.k = "nan" THEN NaN
            ELSE IF a.k # "fin" /\ b.k # "fin" THEN (IF a.k = b.k THEN a ELSE NaN)
            ELSE IF a.k # "fin" THEN a
            ELSE IF b.k # "fin" THEN b
            ELSE IF a.d = b.d THEN Fin(SAdd(a.n, b.n), a.d)
            ELSE Fin(SAdd(SMul(a.n, b.d), SMul(b.n, a.d)), SMul(a.d, b.d)))
      [] opname = "VSub" ->
           (LET a == argv[1] b == argv[2] IN
            VAdd(a, VNeg(b)))
      [] opname = "VMul" ->
           (LET a == argv[1] b == argv[2] IN
            IF a.k = "nan" \/ b.k = "nan" THEN NaN
            ELSE IF a.k # "fin" \/ b.k # "fin" THEN SignedInf(VSign(a) * VSign(b))
            ELSE IF a.n = {} \/ b.n = {} THEN VZero
            ELSE IF a.n = b.d /\ a.d = b.n THEN VOne
            ELSE IF a.n = b.d THEN Fin(b.n, a.d)
            ELSE IF a.d = b.n THEN Fin(a.n, b.d)
            ELSE Fin(SMul(a.n, b.n), SMul(a.d, b.d)))
      [] opname = "VDiv" ->
           (LET a == argv[1] b == argv[2] IN
            IF a.k = "nan" \/ b.k = "nan" THEN NaN
            ELSE IF a.k # "fin" /\ b.k # "fin" THEN NaN
            ELSE IF a.k # "fin" THEN (IF VSign(b) < 0 THEN VNeg(a) ELSE a)
            ELSE IF b.k # "fin" THEN VZero
            ELSE IF b.n = {} THEN SignedInf(VSign(a))
            ELSE VMul(a, [k |-> "fin", n |-> b.d, d |-> b.n]))
      [] opname = "VEq" ->
           (LET a == argv[1] b == argv[2] IN
            /\ a.k # "nan" /\ b.k # "nan"
            /\ IF a.k = "fin" /\ b.k = "fin"
               THEN SMul(a.n, b.d) = SMul(b.n, a.d)
               ELSE a.k = b.k)
      [] opname = "VLt" ->
           (LET a == argv[1] b == argv[2] IN
            /\ a.k # "nan" /\ b.k # "nan"
            /\ IF a.k = "fin" /\ b.k = "fin" THEN VSign(VSub(a, b)) < 0
               ELSE a.k # b.k /\ (a.k = "ninf" \/ b.k = "inf"))
      [] opname = "VLe" ->
           (LET a == argv[1] b == argv[2] IN
            VLt(a, b) \/ VEq(a, b))
      [] opname = "VIPow" ->
           (LET a == argv[1] k == argv[2] IN
            IF k = 0 THEN VOne ELSE VMul(a, VIPow(a, k - 1)))
      [] opname = "VPowQ" ->
           (LET a == argv[1] e == argv[2] IN
            IF a.k = "nan" THEN NaN
            ELSE IF e[1] = 0 THEN VOne
            ELSE IF a.k = "inf" THEN (IF e[1] > 0 THEN Inf ELSE VZero)
            ELSE IF a.k = "ninf" THEN (IF e[2] # 1 THEN NaN ELSE IF e[1] < 0 THEN VZero
                                       ELSE IF e[1] % 2 = 0 THEN Inf ELSE NInf)
            ELSE IF a.n = {} THEN (IF e[1] > 0 THEN VZero ELSE Inf)
            ELSE IF e[2] = 1 /\ e[1] > 0 THEN VIPow(a, e[1])
            ELSE IF e[2] = 1 THEN VDiv(VOne, VIPow(a, -e[1]))
            ELSE IF VSign(a) < 0 THEN NaN
            ELSE LET t == CHOOSE t \in a.n : Cardinality(a.n) = 1 /\ a.d = SOne
                     ev == EVScale(EVAdd(EVOfQ(t.c), t.m), e)
                 IN  Fin({[m |-> EVMono(ev), c |-> EVCoef(ev)]}, SOne))
      [] opname = "VSqrt" ->
           (LET a == argv[1] IN
            VPowQ(a, <<1, 2>>))
      [] opname = "LogTerm" ->
           (LET a == argv[1] IN
            LET t == CHOOSE t \in a.n : Cardinality(a.n) = 1 /\ a.d = SOne /\ t.c[1] > 0
            IN  EVAdd(EVOfQ(t.c), t.m))
      [] opname = "ExpEV" ->
           (LET ev == argv[1] IN
            Fin({[m |-> EVMono(ev), c |-> EVCoef(ev)]}, SOne))
      [] opname = "VSum" ->
           (LET s == argv[1] IN
            IF s = <<>> THEN VZero ELSE VAdd(Head(s), VSum(Tail(s))))
      [] opname = "VProd" ->
           (LET s == argv[1] IN
            IF s = <<>> THEN VOne ELSE VMul(Head(s), VProd(Tail(s))))
      [] opname = "VMean" ->
           (LET s == argv[1] IN
            IF s = <<>> THEN NaN ELSE VDiv(VSum(s), VInt(Len(s))))
      [] opname = "CumProd" ->
           (LET s == argv[1] IN
            IF s = <<>> THEN <<>>
            ELSE LET f == CumProd(SubSeq(s, 1, Len(s) - 1))
                 IN  IF f = <<>> THEN <<s[1]>> ELSE Append(f, VMul(f[Len(f)], s[Len(s)])))
      \* _idx.compute(chained=chained, base=base) of each front-facing function
      [] opname = "paasche" -> PaascheCompute(argv[1], argv[2], argv[3], argv[4], argv[5])
      [] opname = "laspeyres" -> LaspeyresCompute(argv[1], argv[2], argv[3], argv[4], argv[5])
      [] opname = "fisher" -> FisherCompute(argv[1], argv[2], argv[3], argv[4], argv[5])
      [] opname = "walsh" -> WalshCompute(argv[1], argv[2], argv[3], argv[4], argv[5])
      [] opname = "geometric" -> GeometricCompute(argv[1], argv[2], argv[3], argv[4], argv[5])
      [] opname = "marshall_edgeworth" -> MarshallEdgeworthCompute(argv[1], argv[2], argv[3], argv[4], argv[5])
      [] opname = "carli" -> CarliCompute(argv[1], argv[2], argv[3])
      [] opname = "dutot" -> DutotCompute(argv[1], argv[2], argv[3])
      [] opname = "jevons" -> JevonsCompute(argv[1], argv[2], argv[3])
      [] opname = "harmonic_mean" -> HarmonicMeanCompute(argv[1], argv[2], argv[3])
      [] opname = "cswd_index" -> CSWDCompute(argv[1], argv[2], argv[3])
      [] opname = "harmonic_ratios" -> HarmonicRatioCompute(argv[1], argv[2], argv[3])
      \* tornqvist takes `chained` and does not pass it on
      [] opname = "tornqvist" -> TornqvistCompute(argv[1], argv[2], argv[3], argv[5])
      \* the features and the aggregation of edan.nipa
      [] opname = "contains" ->
           (LET parent == argv[1] child == argv[2] IN
            IF CodeLen(parent) > CodeLen(child) THEN FALSE
            ELSE IF CodeLen(parent) = CodeLen(child) /\ parent = child THEN TRUE
            ELSE parent = CodeHead(child, CodeLen(parent)))
      [] opname = "disaggregate" ->
           (LET reg == argv[1] code == argv[2] subs == argv[3] level == argv[4] IN
            IF elemental(reg, code) THEN [err |-> "TypeError", subs |-> <<>>]
            ELSE Disaggregator(reg, code, subs, level))
      [] opname = "Concat" ->
           (LET frames == argv[1] IN
            LET idx == SeqOfSet(UNION {Range(frames[j].idx) : j \in 1..Len(frames)})
            IN  [idx |-> idx,
                 vals |-> [r \in 1..Len(idx) |->
                              [j \in 1..Len(frames) |-> At(frames[j], idx[r])]]])
      [] opname = "DropNaAll" ->
           (LET P == argv[1] IN
            Rows(P, {r \in 1..Len(P.idx) : \E j \in 1..Len(P.vals[r]) : ~IsNaN(P.vals[r][j])}))
      [] opname = "DropNaAny" ->
           (LET P == argv[1] IN
            Rows(P, {r \in 1..Len(P.idx) : \A j \in 1..Len(P.vals[r]) : ~IsNaN(P.vals[r][j])}))
      [] opname = "SeriesDiv" ->
           (LET a == argv[1] b == argv[2] IN
            LET both == Concat(<<a, b>>)
            IN  [idx |-> both.idx,
                 vals |-> [r \in 1..Len(both.idx) |-> VDiv(both.vals[r][1], both.vals[r][2])]])
      [] opname = "transform" ->
           (LET vals == argv[1] method == argv[2] IN
            IF method = "index" THEN [err |-> "ValueError", vals |-> <<>>]
            ELSE IF method \notin RegisteredTransforms THEN [err |-> "KeyError", vals |-> <<>>]
            ELSE [err |-> "none", vals |-> series_transforms(vals, method, 1, periods_per_year)])
      [] opname = "gather_subs_collect_ctypes" ->
           (LET reg == argv[1] agg == argv[2] subs == argv[3] level == argv[4] IN
            LET sel == disaggregate(reg, agg, subs, level)
                comps == <<agg>> \o sel.subs
                isbal(c) == reg.comps[c].kind = "balance"
                expand(c) ==
                    IF isbal(c)
                    THEN [i \in 1..Len(reg.comps[c].subs) |->
                             [code |-> reg.comps[c].subs[i],
                              bal |-> IF is_less(reg.comps[c].subs[i], agg) THEN -1 ELSE 1]]
                    ELSE <<[code |-> c, bal |-> IF is_less(c, agg) THEN -1 ELSE 0]>>
                items == Flatten([i \in 1..Len(comps) |-> expand(comps[i])])
                none == [err |-> "none", codes |-> <<>>, components |-> <<>>,
                         stocks |-> <<>>, flows |-> <<>>, bals |-> <<>>]
            IN  IF sel.err # "none" THEN [none EXCEPT !.err = sel.err]
                ELSE IF \E i \in 1..Len(comps) : isbal(comps[i]) /\ elemental(reg, comps[i])
                THEN [none EXCEPT !.err = "TypeError"]
                ELSE [err |-> "none",
                      codes |-> comps,
                      components |-> [i \in 1..Len(items) |-> items[i].code],
                      stocks |-> [i \in 1..Len(items) |-> reg.comps[items[i].code].kind # "flow"],
                      flows |-> [i \in 1..Len(items) |-> reg.comps[items[i].code].kind = "flow"],
                      bals |-> [i \in 1..Len(items) |-> items[i].bal]])
      [] opname = "contribution_data" ->
           (LET reg == argv[1] g == argv[2] mtype == argv[3] IN
            LET attr(j) == IF g.flows[j] THEN LevelMeasure(mtype) ELSE mtype
                n == Len(g.components)
            IN  IF \E j \in 1..n : ~HasMeasure(reg, g.components[j], attr(j))
                THEN [err |-> "AttributeError", idx |-> <<>>, vals |-> <<>>]
                ELSE LET P == DropNaAll(Concat([j \in 1..n |-> reg.data[g.components[j]][attr(j)]]))
                     IN  [err |-> "none", idx |-> P.idx, vals |-> P.vals])
      [] opname = "create_stock_balance_indices" ->
           (LET bal == argv[1] IN
            LET n == Len(bal)
                bal_offset == [i \in 1..n |-> IF i = 1 THEN 0 ELSE bal[i - 1]]
                in_bal == SeqOfSet({i \in 1..n : bal[i] = 1 /\ bal_offset[i] # 1})
                in_stock == SeqOfSet({i \in 1..n : bal[i] = 0})
                all_outs == Range(in_stock) \cup Range(in_bal)
                searchsorted(x) == 1 + Cardinality({y \in all_outs : y < x})
            IN  [outs |-> [k \in 1..Len(in_stock) |-> searchsorted(in_stock[k])],
                 outb |-> [k \in 1..Len(in_bal) |-> searchsorted(in_bal[k])],
                 ins |-> in_stock,
                 inb |-> in_bal])
      [] opname = "create_balance_groups" ->
           (LET bal == argv[1] IN
            LET ix == create_stock_balance_indices(bal)
                in_indices == Range(ix.ins) \cup Range(ix.inb) \cup {Len(bal) + 1}
                rborder(k) == CHOOSE x \in in_indices :
                                 /\ x > ix.inb[k]
                                 /\ \A y \in in_indices : y > ix.inb[k] => x <= y
            IN  [k \in 1..Len(ix.inb) |-> <<ix.inb[k], rborder(k)>>])
      [] opname = "apply_balances" ->
           (LET arr == argv[1] bals == argv[2] IN
            IF \A i \in 1..Len(bals) : bals[i] = 0 THEN arr
            ELSE LET ix == create_stock_balance_indices(bals)
                     bal_grps == create_balance_groups(bals)
                     width == Len(ix.outs) + Len(ix.outb)
                     cell(row, o) ==
                         IF \E k \in 1..Len(ix.outs) : ix.outs[k] = o
                         THEN row[ix.ins[CHOOSE k \in 1..Len(ix.outs) : ix.outs[k] = o]]
                         ELSE LET grp == bal_grps[CHOOSE k \in 1..Len(ix.outb) : ix.outb[k] = o]
                              IN  VSum(SubSeq(row, grp[1], grp[2] - 1))
                 IN  [t \in 1..Len(arr) |-> [o \in 1..width |-> cell(arr[t], o)]])
      [] opname = "RealChange" ->
           (LET real == argv[1] stocks == argv[2] flows == argv[3] IN
            [t \in 1..Len(real) |->
                [j \in 1..Len(stocks) |->
                    IF stocks[j] /\ t >= 2 THEN VSub(real[t][j], real[t - 1][j])
                    ELSE IF flows[j] /\ t >= 3
                    THEN VSub(VSub(real[t][j], real[t - 1][j]),
                              VSub(real[t - 1][j], real[t - 2][j]))
                    ELSE NaN]])
      [] opname = "RealShares" ->
           (LET reg == argv[1] g == argv[2] IN
            LET rdf == contribution_data(reg, g, "real")
                ndf == contribution_data(reg, g, "nominal")
                real == rdf.vals
                nominal == ndf.vals
                n == Len(g.components)
                real_chg == RealChange(real, g.stocks, g.flows)
                deflator == [t \in 1..Len(real) |->
                                [j \in 1..n |->
                                    IF t >= 2 THEN VDiv(nominal[t - 1][j], real[t - 1][j])
                                    ELSE NaN]]
                nom_chg == [t \in 1..Len(real) |->
                               [j \in 1..n |->
                                   LET x == VMul(deflator[t][j], real_chg[t][j])
                                   IN  IF IsZero(x) THEN NaN ELSE x]]
                shares == [t \in 1..Len(real) |->
                              [j \in 1..n |->
                                  ZeroIfNaN(IF j = 1 THEN VOne
                                            ELSE VDiv(nom_chg[t][j], nom_chg[t][1]))]]
                fail(e) == [err |-> e, real_chg |-> <<>>, shares |-> <<>>, raw |-> <<>>]
            IN  IF rdf.err # "none" THEN fail(rdf.err)
                ELSE IF ndf.err # "none" THEN fail(ndf.err)
                ELSE IF Len(nominal) # Len(real) THEN fail("ValueError")
                ELSE [err |-> "none",
                      real_chg |-> real_chg,
                      shares |-> apply_balances(FlipSubtractive(shares, g.bals), g.bals),
                      raw |-> shares])
      [] opname = "RealContribution" ->
           (LET reg == argv[1] agg == argv[2] subs == argv[3] level == argv[4] method == argv[5] IN
            LET g == gather_subs_collect_ctypes(reg, agg, subs, level)
                agg_growth == transform(reg.data[agg]["real"].vals, method)
                sh == RealShares(reg, g)
            IN  IF g.err # "none" THEN FeatureRaised(g.err)
                ELSE IF elemental(reg, agg) THEN Ones(agg, reg.data[agg]["real"])
                ELSE IF agg_growth.err # "none" THEN FeatureRaised(agg_growth.err)
                ELSE IF sh.err # "none" THEN FeatureRaised(sh.err)
                ELSE IF Len(sh.shares) # Len(agg_growth.vals) THEN FeatureRaised("ValueError")
                ELSE DataFrame([t \in 1..Len(sh.shares) |->
                                   [j \in 1..Len(sh.shares[t]) |->
                                       VMul(sh.shares[t][j], agg_growth.vals[t])]],
                               reg.data[agg]["real"].idx, g.codes,
                               g.components, sh.real_chg, sh.shares))
      [] opname = "weighted_inflation" ->
           (LET reg == argv[1] g == argv[2] IN
            LET pdf == contribution_data(reg, g, "price")
                ndf == contribution_data(reg, g, "nominal")
                price == pdf.vals
                nominal == ndf.vals
                n == Len(g.components)
                infl == [t \in 1..(Len(price) - 1) |->
                            [j \in 1..n |->
                                VMul(VInt(100), VSub(VDiv(price[t + 1][j], price[t][j]), VOne))]]
                shares == nom_shares(nominal)
                weighted == [t \in 1..Len(infl) |->
                                [j \in 1..n |-> VMul(infl[t][j], shares[t][j])]]
                flipped == FlipSubtractive(weighted, g.bals)
                inserted == << [j \in 1..n |-> NaN] >> \o flipped
                fail(e) == [err |-> e, vals |-> <<>>, weighted |-> <<>>]
            IN  IF pdf.err # "none" THEN fail(pdf.err)
                ELSE IF ndf.err # "none" THEN fail(ndf.err)
                ELSE IF Len(price) # Len(nominal) THEN fail("ValueError")
                ELSE [err |-> "none", vals |-> apply_balances(inserted, g.bals),
                      weighted |-> flipped])
      [] opname = "nom_shares" ->
           (LET nominal == argv[1] IN
            [t \in 1..(Len(nominal) - 1) |->
                [j \in 1..Len(nominal[t + 1]) |->
                    VDiv(nominal[t + 1][j], nominal[t + 1][1])]])
      [] opname = "initial_price_index" ->
           (LET reg == argv[1] g == argv[2] IN
            LET ix == create_stock_balance_indices(g.bals)
                bal_grps == create_balance_groups(g.bals)
                ndf == contribution_data(reg, g, "nominal")
                pdf == contribution_data(reg, g, "price")
                nom == ndf.vals[1]
                price == pdf.vals[1]
                width == Len(ix.outs) + Len(ix.outb)
                cell(o) ==
                    IF \E k \in 1..Len(ix.outs) : ix.outs[k] = o
                    THEN price[ix.ins[CHOOSE k \in 1..Len(ix.outs) : ix.outs[k] = o]]
                    ELSE LET grp == bal_grps[CHOOSE k \in 1..Len(ix.outb) : ix.outb[k] = o]
                             nom_grp == SubSeq(nom, grp[1], grp[2] - 1)
                             price_grp == SubSeq(price, grp[1], grp[2] - 1)
                         IN  VDiv(Dot(nom_grp, price_grp), VSum(nom_grp))
            IN  IF ndf.err # "none" THEN [err |-> ndf.err, vals |-> <<>>]
                ELSE IF pdf.err # "none" THEN [err |-> pdf.err, vals |-> <<>>]
                ELSE IF ndf.vals = <<>> \/ pdf.vals = <<>> THEN [err |-> "IndexError", vals |-> <<>>]
                ELSE [err |-> "none", vals |-> [o \in 1..width |-> cell(o)]])
      [] opname = "TransformFrame" ->
           (LET vals == argv[1] width == argv[2] method == argv[3] IN
            LET cols == [j \in 1..width |-> transform(ColumnOf(vals, j), method)]
            IN  IF method = "index" THEN [err |-> "ValueError", vals |-> <<>>]
                ELSE IF method \notin RegisteredTransforms THEN [err |-> "KeyError", vals |-> <<>>]
                ELSE [err |-> "none",
                      vals |-> [t \in 1..Len(vals) |-> [j \in 1..width |-> cols[j].vals[t]]]])
      [] opname = "price_path" ->
           (LET reg == argv[1] g == argv[2] IN
            LET wi == weighted_inflation(reg, g)
                init_price == initial_price_index(reg, g)
                width == Len(init_price.vals)
                \* rates[0, :] = 1
                rates == [t \in 1..Len(wi.vals) |->
                             IF t = 1 THEN [j \in 1..Len(wi.vals[1]) |-> VOne] ELSE wi.vals[t]]
                factor(j) == [t \in 1..Len(rates) |->
                                 VAdd(VOne, VDiv(rates[t][j], VInt(100)))]
                rpath == [j \in 1..width |-> CumProd(factor(j))]
                fail(e) == [err |-> e, vals |-> <<>>, width |-> 0]
            IN  IF wi.err # "none" THEN fail(wi.err)
                ELSE IF init_price.err # "none" THEN fail(init_price.err)
                ELSE [err |-> "none", width |-> width,
                      vals |-> [t \in 1..Len(rates) |->
                                   [j \in 1..width |-> VMul(rpath[j][t], init_price.vals[j])]]])
      [] opname = "PriceContribution" ->
           (LET reg == argv[1] agg == argv[2] subs == argv[3] level == argv[4] method == argv[5] IN
            LET g == gather_subs_collect_ctypes(reg, agg, subs, level)
                path == price_path(reg, g)
                prices == path.vals
                width == path.width
                transformed == TransformFrame(prices, width, method)
            IN  IF g.err # "none" THEN FeatureRaised(g.err)
                ELSE IF elemental(reg, agg) THEN FeatureRaised("AttributeError")
                ELSE IF path.err # "none" THEN FeatureRaised(path.err)
                ELSE IF ~HasMeasure(reg, agg, "price") THEN FeatureRaised("AttributeError")
                ELSE IF Len(prices) # Len(reg.data[agg]["price"].idx)
                        \/ width # Len(g.codes)
                THEN FeatureRaised("ValueError")
                ELSE IF transformed.err # "none" THEN FeatureRaised(transformed.err)
                ELSE FeatureReturned(g.codes, reg.data[agg]["price"].idx, transformed.vals,
                                     g.components, <<>>, <<>>))
      [] opname = "ContributionCompute" ->
           (LET reg == argv[1] agg == argv[2] subs == argv[3] level == argv[4] mtype == argv[5] method == argv[6] IN
            IF mtype = "real"
            THEN RealContribution(reg, agg, subs, level, IF method = "" THEN "difa%" ELSE method)
            ELSE IF mtype = "price"
            THEN PriceContribution(reg, agg, subs, level, IF method = "" THEN "yryr%" ELSE method)
            ELSE FeatureRaised("ValueError"))
      [] opname = "ShareCompute" ->
           (LET reg == argv[1] obj == argv[2] subs == argv[3] level == argv[4] mtype == argv[5] IN
            LET sel == disaggregate(reg, obj, subs, level)
                comps == <<obj>> \o sel.subs
                data == DropNaAll(Concat([j \in 1..Len(comps) |-> reg.data[comps[j]][mtype]]))
                shares == [t \in 1..Len(data.idx) |->
                              [j \in 1..Len(comps) |-> ShareCell(data.vals[t], j)]]
            IN  IF elemental(reg, obj) THEN Ones(obj, reg.data[obj]["nominal"])
                ELSE IF sel.err # "none" THEN FeatureRaised(sel.err)
                ELSE IF \E j \in 1..Len(comps) : ~HasMeasure(reg, comps[j], mtype)
                THEN FeatureRaised("AttributeError")
                ELSE FeatureReturned(comps, data.idx, shares, <<>>, <<>>, <<>>))
      [] opname = "set_ctypes_and_data" ->
           (LET reg == argv[1] objs == argv[2] IN
            LET isbal(c) == reg.comps[c].kind = "balance"
                expand(c) == IF isbal(c) THEN reg.comps[c].subs ELSE <<c>>
                items == Flatten([i \in 1..Len(objs) |-> expand(objs[i])])
                n == Len(items)
                data == DropNaAny(Concat([j \in 1..n |-> reg.data[items[j]]["real"]]
                                         \o [j \in 1..n |-> reg.data[items[j]]["price"]]))
                fail(e) == [err |-> e, idx |-> <<>>, real |-> <<>>, price |-> <<>>, less |-> <<>>]
            IN  IF \E i \in 1..Len(objs) : isbal(objs[i]) /\ elemental(reg, objs[i])
                THEN fail("TypeError")
                ELSE IF \E j \in 1..n : ~HasMeasure(reg, items[j], "real")
                                          \/ ~HasMeasure(reg, items[j], "price")
                THEN fail("AttributeError")
                ELSE IF n = 0 THEN fail("ValueError")
                ELSE [err |-> "none",
                      idx |-> data.idx,
                      real |-> [t \in 1..Len(data.idx) |-> SubSeq(data.vals[t], 1, n)],
                      price |-> [t \in 1..Len(data.idx) |-> SubSeq(data.vals[t], n + 1, 2 * n)],
                      less |-> [j \in 1..n |-> is_less(items[j], <<>>)]])
      [] opname = "compute_chained_weights" ->
           (LET real == argv[1] price == argv[2] IN
            [t \in 1..Len(real) |->
                IF t = 1 THEN VOne
                ELSE LET paasche == VDiv(Dot(real[t], price[t]), Dot(real[t - 1], price[t]))
                         laspeyres == VDiv(Dot(real[t], price[t - 1]), Dot(real[t - 1], price[t - 1]))
                     IN  VSqrt(VMul(paasche, laspeyres))])
      [] opname = "chain" ->
           (LET idx == argv[1] real == argv[2] weights == argv[3] IN
            LET base_locs == SeqOfSet({t \in 1..Len(idx) : Year(idx[t]) = base_year})
                real_base == VMean([i \in 1..Len(base_locs) |-> VSum(real[base_locs[i]])])
                weight_path == CumProd(weights)
                weight_base == WeightBase(weight_path, base_locs)
            IN  [idx |-> idx,
                 vals |-> [t \in 1..Len(idx) |->
                              VMul(weight_path[t], VDiv(real_base, weight_base))]])
      [] opname = "compute_quantity_index" ->
           (LET nominal == argv[1] price == argv[2] IN
            LET nom_price == SeriesDiv(nominal, price)
                np_changes == [t \in 1..Len(nom_price.idx) |->
                                  VDiv(nom_price.vals[t], Shift(nom_price.vals, 1)[t])]
                growth == CumProd(SubSeq(np_changes, 2, Len(np_changes)))
                quant == [t \in 1..Len(nominal.idx) |->
                             IF t = 1 THEN VInt(100) ELSE VMul(VInt(100), growth[t - 1])]
                base_locs == SeqOfSet({t \in 1..Len(nominal.idx) :
                                          Year(nominal.idx[t]) = base_year})
                scale == VMean([i \in 1..Len(base_locs) |-> quant[base_locs[i]]])
            IN  IF nominal.idx = <<>> THEN [err |-> "IndexError", idx |-> <<>>, vals |-> <<>>]
                ELSE IF Len(nom_price.idx) # Len(nominal.idx)
                THEN [err |-> "ValueError", idx |-> <<>>, vals |-> <<>>]
                ELSE [err |-> "none",
                      idx |-> nominal.idx,
                      vals |-> [t \in 1..Len(quant) |-> VMul(VInt(100), VDiv(quant[t], scale))]])
      [] opname = "AggregateNipa" ->
           (LET reg == argv[1] objs == argv[2] IN
            LET nom_data == DropNaAll(Concat([j \in 1..Len(objs) |-> reg.data[objs[j]]["nominal"]]))
                \* DataFrame.sum(axis='columns') leaves the nan cells out
                nominal == [idx |-> nom_data.idx,
                            vals |-> [t \in 1..Len(nom_data.idx) |->
                                         VSum([j \in 1..Len(objs) |->
                                                  IF IsNaN(nom_data.vals[t][j]) THEN VZero
                                                  ELSE nom_data.vals[t][j]])]]
                cw == set_ctypes_and_data(reg, objs)
                weights == compute_chained_weights(cw.real, cw.price)
                real == chain(cw.idx, cw.real, weights)
                ratio == SeriesDiv(nominal, real)
                price == [idx |-> ratio.idx,
                          vals |-> [t \in 1..Len(ratio.idx) |-> VMul(VInt(100), ratio.vals[t])]]
                quant == compute_quantity_index(nominal, price)
            IN  IF \E i \in 1..Len(objs) : reg.comps[objs[i]].kind \in {"flow", "balance"}
                THEN AggregateRaised("NotImplementedError")
                ELSE IF objs = <<>> THEN AggregateRaised("ValueError")
                ELSE IF \E j \in 1..Len(objs) : ~HasMeasure(reg, objs[j], "nominal")
                THEN AggregateRaised("AttributeError")
                ELSE IF cw.err # "none" THEN AggregateRaised(cw.err)
                ELSE IF quant.err # "none" THEN AggregateRaised(quant.err)
                ELSE [ok |-> TRUE, err |-> "none", subs |-> objs, weights |-> weights,
                      nominal |-> nominal, real |-> real, price |-> price,
                      quantity |-> [idx |-> quant.idx, vals |-> quant.vals]])
      [] opname = "Measures" ->
           (LET tree == argv[1] ds == argv[2] code == argv[3] IN
            LET comp == tree[code]
                id == code[Len(code)]
                first == FirstObserved(ds, code)
                start == StartPeriod(ds)
                real(t) == VInt(SignedSum(tree, ds, code, t, FALSE))
                nominal(t) == VDiv(VInt(SignedSum(tree, ds, code, t, TRUE)), VInt(100))
                price(t) == IF comp.subs = <<>> THEN VInt(PriceLevel(ds, id, t))
                            ELSE VMul(VInt(100), VDiv(nominal(t), real(t)))
                real_level(t) == VInt(RealLevel(ds, id, t))
                nominal_level(t) == VDiv(VInt(PriceLevel(ds, id, t) * RealLevel(ds, id, t)),
                                         VInt(100))
                both == ("nominal" :> Observed(start, first, nominal)) @@ ("real" :> Observed(start, first, real))
            IN  CASE comp.kind = "stock" -> both @@ ("price" :> Observed(start, first, price))
                  [] comp.kind = "flow" ->
                       both @@ ("nominal_level" :> Observed(start, first, nominal_level))
                            @@ ("real_level" :> Observed(start, first, real_level))
                  [] OTHER -> both)
      [] opname = "Registry" ->
           (LET shape == argv[1] ds == argv[2] IN
            [comps |-> Tree(shape),
             data |-> [code \in DOMAIN Tree(shape) |-> Measures(Tree(shape), ds, code)]])
      [] opname = "ReIndexer" ->
           (LET data == argv[1] base == argv[2] IN
            LET rows == IF base.kind = "year"
                        THEN {t \in 1..Len(data.idx) : Year(data.idx[t]) = base.v}
                        ELSE {t \in 1..Len(data.idx) : data.idx[t] = base.v}
                locs == SeqOfSet(rows)
                base_value == SkipNaMean([i \in 1..Len(locs) |-> data.vals[locs[i]]])
            IN  IF base.kind = "none" THEN [err |-> "ValueError", idx |-> <<>>, vals |-> <<>>]
                ELSE IF rows = {} THEN [err |-> "IndexError", idx |-> <<>>, vals |-> <<>>]
                ELSE [err |-> "none", idx |-> data.idx,
                      vals |-> [t \in 1..Len(data.vals) |->
                                   VDiv(VMul(VInt(100), data.vals[t]), base_value)]])
      [] opname = "TransformationAccessor" ->
           (LET data == argv[1] method == argv[2] n == argv[3] h == argv[4] base == argv[5] IN
            IF method = "index" THEN ReIndexer(data, base)
            ELSE IF method \notin RegisteredTransforms
            THEN [err |-> "KeyError", idx |-> <<>>, vals |-> <<>>]
            ELSE [err |-> "none", idx |-> data.idx,
                  vals |-> series_transforms(data.vals, method, n,
                                             IF h = 0 THEN periods_per_year ELSE h)])
      [] opname = "series_mods" ->
           (LET vals == argv[1] method == argv[2] n == argv[3] h == argv[4] IN
            IF method = "yryr%"
            THEN [t \in 1..Len(vals) |-> VSub(VDiv(vals[t], Shift(vals, h)[t]), VOne)]
            ELSE series_transforms(vals, method, n, h))
      [] opname = "ModificationReIndexer" ->
           (LET data == argv[1] base == argv[2] IN
            LET rows == IF base.kind = "year"
                        THEN {t \in 1..Len(data.idx) : Year(data.idx[t]) = base.v}
                        ELSE {t \in 1..Len(data.idx) : data.idx[t] = base.v}
                locs == SeqOfSet(rows)
                base_value == SkipNaMean([i \in 1..Len(locs) |-> data.vals[locs[i]]])
            IN  IF base.kind = "none" THEN [err |-> "ValueError", idx |-> <<>>, vals |-> <<>>]
                ELSE IF base.kind = "year" /\ rows = {}
                THEN [err |-> "KeyError", idx |-> <<>>, vals |-> <<>>]
                ELSE [err |-> "none", idx |-> data.idx,
                      vals |-> [t \in 1..Len(data.vals) |->
                                   VDiv(VMul(VInt(100), data.vals[t]), base_value)]])
      [] opname = "ModificationAccessor" ->
           (LET data == argv[1] method == argv[2] n == argv[3] h == argv[4] base == argv[5] IN
            IF method = "index" THEN ModificationReIndexer(data, base)
            ELSE IF method \notin RegisteredTransforms
            THEN [err |-> "KeyError", idx |-> <<>>, vals |-> <<>>]
            ELSE [err |-> "none", idx |-> data.idx,
                  vals |-> series_mods(data.vals, method, n,
                                       IF h = 0 THEN periods_per_year ELSE h)])
      [] opname = "SkipNaMean" ->
           (LET vals == argv[1] IN
            VMean(SelectSeq(vals, LAMBDA x : ~IsNaN(x))))
      [] opname = "TransformData" ->
           (LET name == argv[1] IN
            LET n(i) == VInt(i)
                vals == CASE name = "rising" -> <<n(2), n(4), n(8), n(16), n(32), n(64)>>
                          [] name = "signed" -> <<n(-1), n(-2), n(0), n(2), n(3), n(6)>>
                          [] OTHER -> <<n(3), NaN, n(6), n(9), n(9), n(12)>>
            IN  [idx |-> [t \in 1..TransformPeriods |-> FirstPeriod + (t - 1)],
                 vals |-> [t \in 1..TransformPeriods |-> IF t <= Len(vals) THEN vals[t] ELSE n(t)],
                 via |-> <<>>])
      [] opname = "EdanCode" ->
           (LET code == argv[1] IN
            LET elms == Elements(code)
            IN  [ids |-> [i \in 1..((Len(elms) + 1) \div 2) |-> elms[2 * i - 1]],
                 delims |-> [i \in 1..(Len(elms) \div 2) |-> elms[2 * i][1]]])
      [] opname = "EdanCodeItem" ->
           (LET code == argv[1] key == argv[2] IN
            LET elms == Elements(code)
                \* the position in the list, counted from 0
                pos == IF key >= 0 THEN 2 * key ELSE Len(elms) + (2 * key + 1)
            IN  IF pos < 0 \/ pos >= Len(elms) THEN [err |-> "IndexError", val |-> <<>>]
                ELSE [err |-> "none", val |-> elms[pos + 1]])
      [] opname = "EdanCodeSlice" ->
           (LET code == argv[1] start == argv[2] stop == argv[3] IN
            LET elms == Elements(code)
                b == IF start[1] < 0 THEN 1 ELSE 0
                e == IF stop[1] <= 0 THEN 0 ELSE -1
            IN  Flatten(CASE start = <<>> /\ stop = <<>> -> elms
                          [] stop = <<>> -> PySlice(elms, <<2 * start[1] + b>>, <<>>)
                          [] start = <<>> -> PySlice(elms, <<>>, <<2 * stop[1] + e>>)
                          [] OTHER -> PySlice(elms, <<2 * start[1] + b>>, <<2 * stop[1] + e>>)))
      [] opname = "concat_codes" ->
           (LET code == argv[1] other == argv[2] delim == argv[3] IN
            LET n_overlaps == IF CodeLen(code) > CodeLen(other) THEN CodeLen(code)
                              ELSE CodeLen(other)
                overlaps == {i \in 1..n_overlaps :
                                EdanCodeSlice(code, <<-i>>, <<>>) = EdanCodeSlice(other, <<>>, <<i>>)}
                i == CHOOSE k \in overlaps : \A j \in overlaps : k <= j
                base == EdanCodeSlice(code, <<>>, <<i>>)
                addition == EdanCodeSlice(other, <<i - 1>>, <<>>)
                delims == CodeDelims(code)
            IN  IF contains(code, other) THEN [err |-> "none", val |-> other]
                ELSE IF overlaps # {}
                THEN IF delims = <<>> THEN [err |-> "IndexError", val |-> <<>>]
                     ELSE [err |-> "none",
                           val |-> base \o <<delims[Len(delims)]>> \o addition]
                ELSE IF delim \notin edan_delimiters THEN [err |-> "ValueError", val |-> <<>>]
                ELSE [err |-> "none", val |-> code \o <<delim>> \o other])
      [] opname = "ShareFrame" ->
           (LET frames == argv[1] codes == argv[2] IN
            LET data == DropNaAll(Concat(frames))
                shares == [t \in 1..Len(data.idx) |->
                              [j \in 1..Len(frames) |-> ShareCell(data.vals[t], j)]]
            IN  IF Len(codes) # Len(frames) THEN FeatureRaised("ValueError")
                ELSE FeatureReturned(codes, data.idx, shares, <<>>, <<>>, <<>>))
      [] opname = "pop_until" ->
           (LET objs == argv[1] stk == argv[2] obj == argv[3] IN
            IF stk = <<>> THEN <<>>
            ELSE LET top == stk[Len(stk)]
                 IN  IF objs[obj].level <= objs[top].level
                     THEN pop_until(objs, SubSeq(stk, 1, Len(stk) - 1), obj)
                     ELSE stk)

WeightedFormulas ==
    {"paasche", "laspeyres", "fisher", "tornqvist", "walsh", "geometric",
     "marshall_edgeworth"}
UnweightedFormulas ==
    {"carli", "dutot", "jevons", "harmonic_mean", "cswd_index", "harmonic_ratios"}

\* the front-facing functions: construct (the weighted constructors check
\* the panels), then compute
WeightedIndex(formula, P, Q, mtype, chained, base) ==
    IF IndexConstructorInit(P, Q, mtype) # "none"
    THEN Raised(IndexConstructorInit(P, Q, mtype), <<>>)
    ELSE Eval(formula, <<P, Q, mtype, chained, base>>)

UnweightedIndex(formula, D, chained, base) == Eval(formula, <<D, chained, base>>)

(***************************************************************************)
(* State.  price and quantity are the panels handed to the index library,  *)
(* call the arguments of the running call and out what it returned or      *)
(* raised; registry holds the components and their series the features    *)
(* are called upon, request the arguments of the running feature call and  *)
(* result what it returned or raised; timeseries is the series a transform *)
(* accessor wraps; accessor holds the attributes of the cached Share       *)
(* object of a component and invocation the position and the local         *)
(* variables of each running call of it.                                   *)
(***************************************************************************)
VARIABLES price, quantity, call, out, registry, request, result,
          timeseries, accessor, invocation, objects, stack, cursor, returned

vars == <<price, quantity, call, out, registry, request, result,
          timeseries, accessor, invocation, objects, stack, cursor, returned>>

\* construct_tree not called: no objects, no work stack, nothing returned
NoObjs == <<>>
NoReturn == [err |-> "pending"]
NoTree == objects = NoObjs /\ stack = <<>> /\ cursor = 0 /\ returned = NoReturn

\* the largest basket and the length of the period axis
MaxItems == 2
NumPeriods == 3

Axis(first) == [t \in 1..NumPeriods |-> first + (t - 1)]

PriceVariants == {"uniform", "step", "signed"}
QuantityVariants == {"fixed", "swing", "signed"}

\* the value of item i at row t
PriceValue(v, i, t) ==
    CASE v = "uniform" -> VQ(QMul(QInt(i), IF t = 1 THEN QOne
                                           ELSE IF t = 2 THEN <<11, 10>>
                                           ELSE <<9, 10>>))
      [] v = "step" -> IF i = 1 THEN (IF t <= 2 THEN VInt(1) ELSE VInt(3))
                       ELSE IF i = 2 THEN VInt(t)
                       ELSE VInt((i - 1) * (i - 1))
      [] v = "signed" -> IF t = 2 THEN VInt(-(i + 1)) ELSE VInt(i + t)
QuantityValue(v, i, t) ==
    CASE v = "fixed" -> VInt(i + 2)
      [] v = "swing" -> IF i = 1 THEN (IF t = 1 THEN VInt(3) ELSE VInt(1))
                        ELSE IF i = 2 THEN (IF t % 2 = 0 THEN VInt(1) ELSE VInt(2))
                        ELSE VInt((i - 2) * (i - 2))
      [] v = "signed" -> IF t = 3 THEN VInt(-i) ELSE VInt(i + 1)

PricePanel(v, n, first) ==
    [idx |-> Axis(first),
     vals |-> [t \in 1..NumPeriods |-> [i \in 1..n |-> PriceValue(v, i, t)]]]
QuantityPanel(v, n, first) ==
    [idx |-> Axis(first),
     vals |-> [t \in 1..NumPeriods |-> [i \in 1..n |-> QuantityValue(v, i, t)]]]

Positive(P) == \A t \in 1..NRows(P) : \A i \in 1..NCols(P) : VSign(P.vals[t][i]) > 0

Bases == {YearBase(2012), YearBase(2011), StampBase(Quarter(2012, 1)), YearBase(2013)}
MTypes == {"price", "quantity", "real"}

NoCall == [formula |-> "none", mtype |-> "none", chained |-> FALSE, base |-> YearBase(0)]
NoResult == [ok |-> FALSE, err |-> "pending", s |-> <<>>, done |-> <<>>]

\* no feature call is running: the idle values of request and result, and
\* the values of the state the other library leaves unused
NoRequest ==
    [op |-> "none", target |-> <<>>, subs |-> "", level |-> 0, mtype |-> "",
     method |-> "", objs |-> <<>>]
NoFeature == [ok |-> FALSE, err |-> "pending"]
NoRegistry == [comps |-> <<>>, data |-> <<>>]
NoPanel == [idx |-> <<>>, vals |-> <<>>]
NoAccessor == [subs |-> <<>>, comps |-> <<>>, codes |-> <<>>]
NoInvocation == <<>>

\* the panels a caller hands over: well formed, or with a quantity panel of
\* one more column, or with a quantity panel on a later period axis
IndexInit ==
    /\ \E n \in 1..MaxItems, pv \in PriceVariants, qv \in QuantityVariants,
          defect \in {"none", "columns", "axis"} :
          /\ (pv = "signed" \/ qv = "signed") => (n = 1 /\ defect = "none")
          /\ pv = "uniform" => n = 2
          /\ price = PricePanel(pv, n, FirstPeriod)
          /\ quantity = QuantityPanel(qv, IF defect = "columns" THEN n + 1 ELSE n,
                                      IF defect = "axis" THEN FirstPeriod + 1
                                      ELSE FirstPeriod)
    /\ call = NoCall
    /\ out = NoResult
    /\ registry = NoRegistry
    /\ request = NoRequest
    /\ result = NoFeature
    /\ timeseries = NoPanel
    /\ accessor = NoAccessor
    /\ invocation = NoInvocation
    /\ NoTree

WeightedCall(formula) ==
    /\ call = NoCall
    /\ \E mtype \in MTypes, chained \in BOOLEAN, base \in Bases :
          /\ call' = [formula |-> formula, mtype |-> mtype, chained |-> chained,
                      base |-> base]
          /\ out' = WeightedIndex(formula, price, quantity, mtype, chained, base)
    /\ UNCHANGED <<price, quantity, registry, request, result, timeseries, accessor, invocation, objects, stack, cursor, returned>>

UnweightedCall(formula) ==
    /\ call = NoCall
    /\ \E chained \in BOOLEAN, base \in Bases :
          /\ call' = [formula |-> formula, mtype |-> "price", chained |-> chained,
                      base |-> base]
          /\ out' = UnweightedIndex(formula, price, chained, base)
    /\ UNCHANGED <<price, quantity, registry, request, result, timeseries, accessor, invocation, objects, stack, cursor, returned>>

paasche == WeightedCall("paasche")
laspeyres == WeightedCall("laspeyres")
fisher == WeightedCall("fisher")
tornqvist == WeightedCall("tornqvist")
walsh == WeightedCall("walsh")
geometric == WeightedCall("geometric")
marshall_edgeworth == WeightedCall("marshall_edgeworth")
carli == UnweightedCall("carli")
dutot == UnweightedCall("dutot")
jevons == UnweightedCall("jevons")
harmonic_mean == UnweightedCall("harmonic_mean")
cswd_index == UnweightedCall("cswd_index")
harmonic_ratios == UnweightedCall("harmonic_ratios")

\* the caller takes the result (or handles the exception); the library keeps
\* no state between calls
IndexReturn ==
    /\ call # NoCall
    /\ call' = NoCall
    /\ out' = NoResult
    /\ UNCHANGED <<price, quantity, registry, request, result, timeseries, accessor, invocation, objects, stack, cursor, returned>>

IndexNext ==
    \/ paasche \/ laspeyres \/ fisher \/ tornqvist \/ walsh \/ geometric
    \/ marshall_edgeworth
    \/ carli \/ dutot \/ jevons \/ harmonic_mean \/ cswd_index \/ harmonic_ratios
    \/ IndexReturn

SpecIndex == IndexInit /\ [][IndexNext]_vars

(***************************************************************************)
(* The features and the aggregation, called on a registry of components.   *)
(* request holds the arguments of the running call, result what it         *)
(* returned or raised.                                                     *)
(***************************************************************************)
Levels == {0, 1, 2}
SubsArguments == {"", "True"}
ContributionMTypes == {"real", "price", "nominal"}
ContributionMethods == {"", "diff%", "diff", "level"}
ShareMTypes == {"nominal", "real", "price"}

\* the selections of components handed to aggregate_nipa: all the
\* subcomponents of the root, the stocks among them, or nothing
Selections(reg) ==
    LET subs == reg.comps[RootCode].subs
        stocks == SeqOfSet({i \in 1..Len(subs) : reg.comps[subs[i]].kind = "stock"})
    IN  {subs, [k \in 1..Len(stocks) |-> subs[stocks[k]]], <<>>}

NipaInit ==
    /\ \E shape \in Shapes, ds \in DataSets :
          registry = Registry(shape, ds)
    /\ request = NoRequest
    /\ result = NoFeature
    /\ price = NoPanel
    /\ quantity = NoPanel
    /\ call = NoCall
    /\ out = NoResult
    /\ timeseries = NoPanel
    /\ accessor = NoAccessor
    /\ invocation = NoInvocation
    /\ NoTree

\* Contribution.__call__(subs, level, mtype, method) of a component
contributions ==
    /\ request = NoRequest
    /\ \E target \in DOMAIN registry.comps, subs \in SubsArguments, level \in Levels,
          mtype \in ContributionMTypes, method \in ContributionMethods :
          /\ request' = [op |-> "contributions", target |-> target, subs |-> subs,
                         level |-> level, mtype |-> mtype, method |-> method,
                         objs |-> <<>>]
          /\ result' = ContributionCompute(registry, target, subs, level, mtype, method)
    /\ UNCHANGED <<registry, price, quantity, call, out, timeseries, accessor, invocation, objects, stack, cursor, returned>>

\* Share.__call__(subs, level, mtype) of a component
shares ==
    /\ request = NoRequest
    /\ \E target \in DOMAIN registry.comps, subs \in SubsArguments, level \in Levels,
          mtype \in ShareMTypes :
          /\ request' = [op |-> "shares", target |-> target, subs |-> subs,
                         level |-> level, mtype |-> mtype, method |-> "",
                         objs |-> <<>>]
          /\ result' = ShareCompute(registry, target, subs, level, mtype)
    /\ UNCHANGED <<registry, price, quantity, call, out, timeseries, accessor, invocation, objects, stack, cursor, returned>>

\* aggregate_nipa(objs)
aggregate_nipa ==
    /\ request = NoRequest
    /\ \E objs \in Selections(registry) :
          /\ request' = [op |-> "aggregate_nipa", target |-> <<>>, subs |-> "",
                         level |-> 0, mtype |-> "", method |-> "", objs |-> objs]
          /\ result' = AggregateNipa(registry, objs)
    /\ UNCHANGED <<registry, price, quantity, call, out, timeseries, accessor, invocation, objects, stack, cursor, returned>>

\* the caller takes the result (or handles the exception)
NipaReturn ==
    /\ request # NoRequest
    /\ request' = NoRequest
    /\ result' = NoFeature
    /\ UNCHANGED <<registry, price, quantity, call, out, timeseries, accessor, invocation, objects, stack, cursor, returned>>

NipaNext == contributions \/ shares \/ aggregate_nipa \/ NipaReturn

SpecNipa == NipaInit /\ [][NipaNext]_vars

(***************************************************************************)
(* The transform accessor: a caller wraps a quarterly series, asks for a   *)
(* transform by name, and may pass the returned series in again.           *)
(***************************************************************************)
\* the number of transforms a caller applies on top of one another after
\* the first
MaxApplied == 1
\* the series a caller starts from
TransformSeries == {"rising", "signed", "gapped"}
TransformBases ==
    {NoBase, YearBase(2011), YearBase(2012), YearBase(2014),
     StampBase(Quarter(2012, 1)), StampBase(Quarter(2012, 2))}
\* the names a caller passes: registered ones, 'index', and names that are
\* not registered
UnregisteredMethods == {"", "growth", "Index"}
DrawnMethods == TransformMethods \cup {"index"} \cup UnregisteredMethods
\* the lags n and the periods per year h a caller passes (0: inferred)
Lags == {1, 2}
PeriodsPerYear == {0, 2}

TransformInit ==
    /\ \E name \in TransformSeries : timeseries = TransformData(name)
    /\ request = NoRequest
    /\ result = NoFeature
    /\ registry = NoRegistry
    /\ price = NoPanel
    /\ quantity = NoPanel
    /\ call = NoCall
    /\ out = NoResult
    /\ accessor = NoAccessor
    /\ invocation = NoInvocation
    /\ NoTree

\* TransformationAccessor(timeseries)(method, n=n, h=h, base=base); a base
\* is passed with 'index', n and h with the registered names
transform_series ==
    /\ request = NoRequest
    /\ \E method \in DrawnMethods, n \in Lags, h \in PeriodsPerYear, base \in TransformBases :
          /\ method # "index" => base = NoBase
          /\ method \notin TransformMethods => n = 1 /\ h = 0
          /\ request' = [op |-> "transform", method |-> method, n |-> n, h |-> h,
                         base |-> base]
          /\ result' = TransformationAccessor(timeseries, method, n, h, base)
    /\ UNCHANGED <<timeseries, registry, price, quantity, call, out, accessor, invocation, objects, stack, cursor, returned>>

\* ModificationAccessor(timeseries)(method, n, h, base)
modify_series ==
    /\ request = NoRequest
    /\ \E method \in DrawnMethods, n \in Lags, h \in PeriodsPerYear, base \in TransformBases :
          /\ method # "index" => base = NoBase
          /\ method \notin TransformMethods => n = 1 /\ h = 0
          /\ request' = [op |-> "modify", method |-> method, n |-> n, h |-> h,
                         base |-> base]
          /\ result' = ModificationAccessor(timeseries, method, n, h, base)
    /\ UNCHANGED <<timeseries, registry, price, quantity, call, out, accessor, invocation, objects, stack, cursor, returned>>

\* the caller takes the result or handles the exception, and keeps the
\* series it had
TransformReturn ==
    /\ request # NoRequest
    /\ request' = NoRequest
    /\ result' = NoFeature
    /\ UNCHANGED <<timeseries, registry, price, quantity, call, out, accessor, invocation, objects, stack, cursor, returned>>

\* the caller takes a rebased series and goes on with it
TransformAgain ==
    /\ request # NoRequest
    /\ request.method = "index"
    /\ result.err = "none"
    /\ Len(timeseries.via) < MaxApplied
    /\ timeseries' = [idx |-> result.idx, vals |-> result.vals,
                      via |-> Append(timeseries.via, request)]
    /\ request' = NoRequest
    /\ result' = NoFeature
    /\ UNCHANGED <<registry, price, quantity, call, out, accessor, invocation, objects, stack, cursor, returned>>

TransformNext == transform_series \/ modify_series \/ TransformReturn \/ TransformAgain

SpecTransform == TransformInit /\ [][TransformNext]_vars

(***************************************************************************)
(* The code functions of edan/delims.py, called on codes of a few          *)
(* identifiers; a code is the sequence of its characters.                  *)
(***************************************************************************)
\* the largest number of identifiers of a code a caller passes
MaxIds == 3
\* the identifiers codes are made of: one is the beginning of the other
CodeIds == {<<"a">>, <<"a", "b">>}

RECURSIVE CodesOf(_)
\* the codes of n identifiers
CodesOf(n) ==
    IF n = 1 THEN CodeIds
    ELSE {code \o <<delim>> \o id :
            code \in CodesOf(n - 1), delim \in edan_delimiters, id \in CodeIds}
CodeStrings == UNION {CodesOf(n) : n \in 1..MaxIds}
\* the code of the library's unit tests, 'a:b-c:d+e'
TestCode == <<"a", ":", "b", "-", "c", ":", "d", "+", "e">>

IntegerKeys == (-(MaxIds + 1))..MaxIds
SliceBounds == {<<>>} \cup {<<k>> : k \in (-(MaxIds + 1))..(MaxIds + 1)}
JoinDelims == {":", "-"}

DelimsInit ==
    /\ request = NoRequest
    /\ result = NoFeature
    /\ registry = NoRegistry
    /\ timeseries = NoPanel
    /\ price = NoPanel
    /\ quantity = NoPanel
    /\ call = NoCall
    /\ out = NoResult
    /\ accessor = NoAccessor
    /\ invocation = NoInvocation
    /\ NoTree

\* EdanCode(code)
edan_code ==
    /\ request = NoRequest
    /\ \E code \in CodeStrings \cup {TestCode} :
          /\ request' = [op |-> "EdanCode", code |-> code]
          /\ result' = [err |-> "none", val |-> EdanCode(code)]
    /\ UNCHANGED <<registry, timeseries, price, quantity, call, out, accessor, invocation, objects, stack, cursor, returned>>

\* EdanCode(code)[key] for an integer key
getitem ==
    /\ request = NoRequest
    /\ \E code \in CodeStrings \cup {TestCode}, key \in IntegerKeys :
          /\ request' = [op |-> "getitem", code |-> code, key |-> key]
          /\ result' = EdanCodeItem(code, key)
    /\ UNCHANGED <<registry, timeseries, price, quantity, call, out, accessor, invocation, objects, stack, cursor, returned>>

\* EdanCode(code)[start:stop]
getslice ==
    /\ request = NoRequest
    /\ \E code \in CodeStrings, start \in SliceBounds, stop \in SliceBounds :
          /\ request' = [op |-> "getslice", code |-> code, start |-> start, stop |-> stop]
          /\ result' = [err |-> "none", val |-> EdanCodeSlice(code, start, stop)]
    /\ UNCHANGED <<registry, timeseries, price, quantity, call, out, accessor, invocation, objects, stack, cursor, returned>>

\* contains(parent, child)
contains_call ==
    /\ request = NoRequest
    /\ \E parent \in CodeStrings, child \in CodeStrings :
          /\ request' = [op |-> "contains", code |-> parent, other |-> child]
          /\ result' = [err |-> "none", val |-> contains(parent, child)]
    /\ UNCHANGED <<registry, timeseries, price, quantity, call, out, accessor, invocation, objects, stack, cursor, returned>>

\* concat_codes(code, other, delim)
concat_codes_call ==
    /\ request = NoRequest
    /\ \E code \in CodeStrings, other \in CodeStrings, delim \in JoinDelims :
          /\ request' = [op |-> "concat_codes", code |-> code, other |-> other,
                         delim |-> delim]
          /\ result' = concat_codes(code, other, delim)
    /\ UNCHANGED <<registry, timeseries, price, quantity, call, out, accessor, invocation, objects, stack, cursor, returned>>

\* the caller takes the result (or handles the exception)
DelimsReturn ==
    /\ request # NoRequest
    /\ request' = NoRequest
    /\ result' = NoFeature
    /\ UNCHANGED <<registry, timeseries, price, quantity, call, out, accessor, invocation, objects, stack, cursor, returned>>

DelimsNext ==
    edan_code \/ getitem \/ getslice \/ contains_call \/ concat_codes_call \/ DelimsReturn

SpecDelims == DelimsInit /\ [][DelimsNext]_vars

(***************************************************************************)
(* Share.compute, statement by statement, for callers that reach the one   *)
(* Share object CachedAccessor keeps on a component: accessor holds that   *)
(* object's attributes subs, comps and codes; invocation[c] holds where    *)
(* caller c is, its arguments and its local variables.  The component is   *)
(* the root of the full tree, which has subcomponents.                     *)
(***************************************************************************)
Callers == {1, 2}
AccessorShape == "full"
AccessorData == "additive"
\* the calls the callers make: the subcomponents one level down and two
\* levels down, a selection disaggregate rejects, and a measure a flow
\* does not have
AccessorCalls ==
    {[subs |-> "", level |-> 1, mtype |-> "nominal"],
     [subs |-> "", level |-> 2, mtype |-> "nominal"],
     [subs |-> "True", level |-> 1, mtype |-> "nominal"],
     [subs |-> "", level |-> 1, mtype |-> "price"]}

Idle ==
    [pc |-> "idle", subs |-> "", level |-> 0, mtype |-> "", frames |-> <<>>,
     todo |-> <<>>, out |-> NoFeature]

SharesInit ==
    /\ registry = Registry(AccessorShape, AccessorData)
    /\ accessor = NoAccessor
    /\ invocation = [c \in Callers |-> Idle]
    /\ NoTree
    /\ request = NoRequest
    /\ result = NoFeature
    /\ timeseries = NoPanel
    /\ price = NoPanel
    /\ quantity = NoPanel
    /\ call = NoCall
    /\ out = NoResult

\* the caller's step leaves everything but the accessor and the invocations
SharesFrame ==
    UNCHANGED <<registry, request, result, timeseries, price, quantity, call, out,
                objects, stack, cursor, returned>>

\* obj.shares(subs, level, mtype): Share.__call__ enters compute; obj is
\* not elemental
SharesCall(c) ==
    /\ invocation[c].pc = "idle"
    /\ ~elemental(registry, RootCode)
    /\ \E args \in AccessorCalls :
          invocation' = [invocation EXCEPT ![c] =
                            [Idle EXCEPT !.pc = "subs", !.subs = args.subs,
                                         !.level = args.level, !.mtype = args.mtype]]
    /\ UNCHANGED accessor
    /\ SharesFrame

\* self.subs = self.obj.disaggregate(subs, level)
SelectSubs(c) ==
    /\ invocation[c].pc = "subs"
    /\ LET sel == disaggregate(registry, RootCode, invocation[c].subs, invocation[c].level)
       IN  IF sel.err # "none"
           THEN /\ invocation' = [invocation EXCEPT ![c].pc = "done",
                                                    ![c].out = FeatureRaised(sel.err)]
                /\ UNCHANGED accessor
           ELSE /\ accessor' = [accessor EXCEPT !.subs = sel.subs]
                /\ invocation' = [invocation EXCEPT ![c].pc = "comps"]
    /\ SharesFrame

\* self.comps = [self.obj] + list(self.subs)
ListComps(c) ==
    /\ invocation[c].pc = "comps"
    /\ accessor' = [accessor EXCEPT !.comps = <<RootCode>> \o accessor.subs]
    /\ invocation' = [invocation EXCEPT ![c].pc = "codes"]
    /\ SharesFrame

\* frames, self.codes = [], []
ResetCodes(c) ==
    /\ invocation[c].pc = "codes"
    /\ accessor' = [accessor EXCEPT !.codes = <<>>]
    /\ invocation' = [invocation EXCEPT ![c].pc = "loop", ![c].frames = <<>>]
    /\ SharesFrame

\* for comp in self.comps: the loop runs over the list self.comps is now
BeginLoop(c) ==
    /\ invocation[c].pc = "loop"
    /\ invocation' = [invocation EXCEPT ![c].pc = "body", ![c].todo = accessor.comps]
    /\ UNCHANGED accessor
    /\ SharesFrame

\* series = getattr(comp, mtype); frames.append(series.data);
\* self.codes.append(comp.code)
CollectSeries(c) ==
    /\ invocation[c].pc = "body"
    /\ invocation[c].todo # <<>>
    /\ LET comp == Head(invocation[c].todo)
       IN  IF ~HasMeasure(registry, comp, invocation[c].mtype)
           THEN /\ invocation' = [invocation EXCEPT ![c].pc = "done",
                                                    ![c].out = FeatureRaised("AttributeError")]
                /\ UNCHANGED accessor
           ELSE /\ invocation' = [invocation EXCEPT
                                    ![c].todo = Tail(invocation[c].todo),
                                    ![c].frames = Append(invocation[c].frames,
                                                         registry.data[comp][invocation[c].mtype])]
                /\ accessor' = [accessor EXCEPT !.codes = Append(accessor.codes, comp)]
    /\ SharesFrame

\* data = pd.concat(frames, ...).dropna(...); the shares;
\* return pd.DataFrame(shares, index=data.index, columns=self.codes)
BuildFrame(c) ==
    /\ invocation[c].pc = "body"
    /\ invocation[c].todo = <<>>
    /\ invocation' = [invocation EXCEPT ![c].pc = "done",
                                        ![c].out = ShareFrame(invocation[c].frames,
                                                              accessor.codes)]
    /\ UNCHANGED accessor
    /\ SharesFrame

\* the caller takes the table (or handles the exception)
SharesReturn(c) ==
    /\ invocation[c].pc = "done"
    /\ invocation' = [invocation EXCEPT ![c] = Idle]
    /\ UNCHANGED accessor
    /\ SharesFrame

SharesNext ==
    \E c \in Callers :
        \/ SharesCall(c) \/ SelectSubs(c) \/ ListComps(c) \/ ResetCodes(c)
        \/ BeginLoop(c) \/ CollectSeries(c) \/ BuildFrame(c) \/ SharesReturn(c)

SpecShares == SharesInit /\ [][SharesNext]_vars

(***************************************************************************)
(* construct_tree(objs) step by step: the entry, one step for each later   *)
(* object of the collection, and the return.  cursor is the position of    *)
(* the object the loop takes next (the loop's i, counted from one).        *)
(***************************************************************************)
MaxObjs == 4
MaxLevel == 2

TreeInit ==
    /\ \E n \in 0..MaxObjs : \E levels \in [1..n -> 0..MaxLevel] :
          objects = [k \in 1..n |-> [level |-> levels[k], subs |-> <<>>]]
    /\ stack = <<>>
    /\ cursor = 0
    /\ returned = NoReturn
    /\ price = NoPanel
    /\ quantity = NoPanel
    /\ call = NoCall
    /\ out = NoResult
    /\ registry = NoRegistry
    /\ request = NoRequest
    /\ result = NoFeature
    /\ timeseries = NoPanel
    /\ accessor = NoAccessor
    /\ invocation = NoInvocation

TreeFrame ==
    UNCHANGED <<price, quantity, call, out, registry, request, result, timeseries,
                accessor, invocation>>

\* stack = [objs[0]]
construct_tree ==
    /\ cursor = 0 /\ returned = NoReturn
    /\ IF objects = <<>>
       THEN returned' = [err |-> "IndexError"] /\ UNCHANGED <<stack, cursor>>
       ELSE stack' = <<1>> /\ cursor' = 2 /\ UNCHANGED returned
    /\ UNCHANGED objects
    /\ TreeFrame

\* the loop's step when get_level(obj) > get_level(sup)
AppendBelow ==
    /\ returned = NoReturn /\ cursor \in 2..Len(objects)
    /\ LET sup == stack[Len(stack)]
       IN  /\ objects[cursor].level > objects[sup].level
           /\ objects' = [objects EXCEPT ![sup].subs = Append(@, cursor)]
           /\ stack' = Append(stack, cursor)
    /\ cursor' = cursor + 1
    /\ UNCHANGED returned
    /\ TreeFrame

\* the loop's step otherwise
PopAndAppend ==
    /\ returned = NoReturn /\ cursor \in 2..Len(objects)
    /\ objects[cursor].level <= objects[stack[Len(stack)]].level
    /\ LET rest == pop_until(objects, stack, cursor)
       IN  IF rest = <<>>
           THEN /\ returned' = [err |-> "IndexError"]
                /\ stack' = <<>>
                /\ UNCHANGED <<objects, cursor>>
           ELSE /\ objects' = [objects EXCEPT ![rest[Len(rest)]].subs = Append(@, cursor)]
                /\ stack' = Append(rest, cursor)
                /\ cursor' = cursor + 1
                /\ UNCHANGED returned
    /\ TreeFrame

\* return stack[0]
TreeReturn ==
    /\ returned = NoReturn /\ cursor > Len(objects) /\ cursor >= 2
    /\ returned' = [err |-> "none", root |-> stack[1]]
    /\ UNCHANGED <<objects, stack, cursor>>
    /\ TreeFrame

TreeNext == construct_tree \/ AppendBelow \/ PopAndAppend \/ TreeReturn

SpecTree == TreeInit /\ [][TreeNext]_vars

(***************************************************************************)
(* Properties of the index library, read in the states where a call has    *)
(* completed (call holds its arguments, out what it returned or raised).   *)
(***************************************************************************)
AllFormulas == WeightedFormulas \cup UnweightedFormulas
BaseRows == locate_base_periods(price.idx, call.base)
MeanOver(series, rows) ==
    LET locs == SeqOfSet(rows) IN VMean([i \in 1..Len(locs) |-> series[locs[i]]])
Column(P, i) == [t \in 1..NRows(P) |-> P.vals[t][i]]
Between(x, a, b) == (VLe(a, x) /\ VLe(x, b)) \/ (VLe(b, x) /\ VLe(x, a))
ShapesAgree == NCols(price) = NCols(quantity) /\ price.idx = quantity.idx

\* C3: for fully defined positive panels, every formula, chained or direct,
\* returns an index whose mean over the rows matching the base period is 100
C3_AveragesTo100OverBase ==
    (call.formula \in AllFormulas /\ out.ok /\ Positive(price) /\ Positive(quantity))
        => VEq(MeanOver(out.s, BaseRows), VInt(100))

\* C4: with prices [1,2] -> [1.1,2.2] and unchanged quantities, the value
\* at the second period over the value at the first is 1.10 for each of the
\* thirteen price-index formulas
C4_UniformRiseLinkRelative ==
    (/\ call.formula \in AllFormulas
     /\ call.mtype = "price"
     /\ out.ok
     /\ price.vals[1] = <<VInt(1), VInt(2)>>
     /\ price.vals[2] = <<VQ(<<11, 10>>), VQ(<<11, 5>>)>>
     /\ quantity.vals[1] = quantity.vals[2])
        => VEq(VDiv(out.s[2], out.s[1]), VQ(<<11, 10>>))

\* C5: the value fisher returns at every period lies between the values
\* paasche and laspeyres return for the same panels, mtype, mode and base
C5_FisherBracketing ==
    (call.formula = "fisher" /\ out.ok)
        => \A t \in 1..Len(out.s) :
              Between(out.s[t],
                      PaascheCompute(price, quantity, call.mtype, call.chained, call.base).s[t],
                      LaspeyresCompute(price, quantity, call.mtype, call.chained, call.base).s[t])

\* C5 as amended: the bracketing holds for positive panels in direct mode,
\* and in chained mode when the base period matches one observation
C5_FisherBracketingPositiveSingleBase ==
    (/\ call.formula = "fisher"
     /\ out.ok
     /\ Positive(price) /\ Positive(quantity)
     /\ (call.chained => Cardinality(BaseRows) = 1))
        => \A t \in 1..Len(out.s) :
              Between(out.s[t],
                      PaascheCompute(price, quantity, call.mtype, call.chained, call.base).s[t],
                      LaspeyresCompute(price, quantity, call.mtype, call.chained, call.base).s[t])

\* a chained fisher call on positive panels with a one-observation base
\* whose value lies strictly between differing paasche and laspeyres values
C5_Witness ==
    /\ call.formula = "fisher" /\ call.chained /\ out.ok
    /\ Positive(price) /\ Positive(quantity)
    /\ Cardinality(BaseRows) = 1
    /\ \E t \in 1..Len(out.s) :
          LET p == PaascheCompute(price, quantity, call.mtype, TRUE, call.base).s[t]
              l == LaspeyresCompute(price, quantity, call.mtype, TRUE, call.base).s[t]
          IN  ~VEq(p, l) /\ ~VEq(out.s[t], p) /\ ~VEq(out.s[t], l)

OwnPanel == IF call.mtype = "price" THEN price ELSE quantity
OwnSeriesRebased ==
    [t \in 1..NRows(OwnPanel) |->
        VMul(VInt(100), VDiv(Column(OwnPanel, 1)[t], MeanOver(Column(OwnPanel, 1), BaseRows)))]

\* C6: on panels of one item with nonzero values every weighted formula
\* returns the item's own series (price for mtype 'price', quantity for
\* mtype 'quantity') rescaled to average 100 over the base period, whatever
\* the other panel holds
C6_SingleItemOwnSeries ==
    (/\ call.formula \in WeightedFormulas
     /\ call.mtype \in {"price", "quantity"}
     /\ NCols(price) = 1 /\ NCols(quantity) = 1 /\ ShapesAgree
     /\ BaseRows # {})
        => /\ out.ok
           /\ \A t \in 1..NRows(OwnPanel) : VEq(out.s[t], OwnSeriesRebased[t])

\* C6 as amended: the same for one-item panels whose values are positive
C6_SingleItemOwnSeriesPositive ==
    (/\ call.formula \in WeightedFormulas
     /\ call.mtype \in {"price", "quantity"}
     /\ NCols(price) = 1 /\ NCols(quantity) = 1 /\ ShapesAgree
     /\ Positive(price) /\ Positive(quantity)
     /\ BaseRows # {})
        => /\ out.ok
           /\ \A t \in 1..NRows(OwnPanel) : VEq(out.s[t], OwnSeriesRebased[t])

\* a weighted formula has returned, for one-item positive panels and a base
\* year of several observations, a series that is not constant
C6_Witness ==
    /\ call.formula \in WeightedFormulas /\ out.ok
    /\ NCols(price) = 1 /\ NCols(quantity) = 1
    /\ Positive(price) /\ Positive(quantity)
    /\ Cardinality(BaseRows) > 1
    /\ ~VEq(out.s[1], out.s[2])

\* C10: a weighted index over panels with different numbers of item columns
\* or different period axes raises before any link, chain or base value is
\* computed, and returns no series
C10_ShapeMismatchRaisesFirst ==
    (call.formula \in WeightedFormulas /\ ~ShapesAgree)
        => (~out.ok /\ out.err = "ValueError" /\ out.s = <<>> /\ out.done = <<>>)

\* a weighted call with a valid mtype was refused for its period axes
C10_WitnessAxis ==
    /\ call.formula \in WeightedFormulas
    /\ call.mtype \in {"price", "quantity"}
    /\ NCols(price) = NCols(quantity) /\ price.idx # quantity.idx
    /\ out.err = "ValueError"

(***************************************************************************)
(* Properties of the features and of the aggregation, read in the states   *)
(* where a call has completed (request holds its arguments, result what it *)
(* returned or raised).  Two values are the same when both are undefined   *)
(* (nan) or both are defined and equal.                                    *)
(***************************************************************************)
Same(a, b) == (IsNaN(a) /\ IsNaN(b)) \/ (~IsNaN(a) /\ ~IsNaN(b) /\ VEq(a, b))
Defined(a) == IsFin(a)

\* the series a contribution reads of a component: its levels for a flow
KindOf(code) == registry.comps[code].kind
ReadSeries(code, mtype) ==
    registry.data[code][IF KindOf(code) = "flow" THEN LevelMeasure(mtype) ELSE mtype]
\* the value of that series at row t of the returned table (nan where the
\* row is before the table or the component has no observation)
ValueAt(code, mtype, t) ==
    IF t < 1 THEN NaN ELSE At(ReadSeries(code, mtype), result.idx[t])

\* the real change the claim C8 states, by kind
StatedRealChange(code, t) ==
    IF KindOf(code) = "flow"
    THEN IF t <= 2 THEN NaN
         ELSE VSub(VSub(ValueAt(code, "real", t), ValueAt(code, "real", t - 1)),
                   VSub(ValueAt(code, "real", t - 1), ValueAt(code, "real", t - 2)))
    ELSE IF t <= 1 THEN NaN
         ELSE VSub(ValueAt(code, "real", t), ValueAt(code, "real", t - 1))

RealContributionReturned ==
    request.op = "contributions" /\ request.mtype = "real" /\ result.ok

\* C8: the real change of a stock-kind component at period t is
\* real(t) - real(t-1), undefined at the first period; of a flow-kind
\* component it is the second difference of its level, undefined at the
\* first two periods
C8_RealChangeByKind ==
    RealContributionReturned
        => \A t \in 1..Len(result.real_chg) :
              \A j \in 1..Len(result.components) :
                 Same(result.real_chg[t][j], StatedRealChange(result.components[j], t))

\* a flow component with consecutive levels 100, 102, 101 got the real
\* change -3 at the third period
C8_WitnessFlow ==
    /\ RealContributionReturned
    /\ \E j \in 1..Len(result.components) :
          /\ KindOf(result.components[j]) = "flow"
          /\ ValueAt(result.components[j], "real", 1) = VInt(100)
          /\ ValueAt(result.components[j], "real", 2) = VInt(102)
          /\ ValueAt(result.components[j], "real", 3) = VInt(101)
          /\ result.real_chg[3][j] = VInt(-3)

AllOnes(target, periods) ==
    /\ result.ok
    /\ result.cols = <<target>>
    /\ result.idx = periods
    /\ \A t \in 1..Len(result.vals) : result.vals[t] = <<VOne>>

\* C9: contributions, real or price, requested for an aggregate with no
\* subcomponents return a single column of ones over the aggregate's
\* periods instead of raising
C9_ElementalContributionOnes ==
    (/\ request.op = "contributions"
     /\ request.mtype \in {"real", "price"}
     /\ elemental(registry, request.target))
        => AllOnes(request.target, registry.data[request.target][request.mtype].idx)

ShareReturned == request.op = "shares" /\ result.ok
\* the periods in which some selected component has an observation
SharePeriods ==
    SeqOfSet(UNION {Range(registry.data[result.cols[j]][request.mtype].idx) :
                       j \in 1..Len(result.cols)})
ShareValue(j, t) == At(registry.data[result.cols[j]][request.mtype], result.idx[t])
\* what the share table has to hold by C7, but for the lone subcomponent
ShareTable ==
    IF elemental(registry, request.target)
    THEN AllOnes(request.target, registry.data[request.target]["nominal"].idx)
    ELSE /\ result.cols[1] = request.target
         /\ result.idx = SharePeriods
         /\ \A t \in 1..Len(result.idx) :
               /\ result.vals[t][1] = VOne
               /\ \A j \in 2..Len(result.cols) :
                     Same(result.vals[t][j], VDiv(ShareValue(j, t), ShareValue(1, t)))

StatedGrowth(t) ==
    LET real(s) == ValueAt(request.target, "real", s)
        ratio == VDiv(real(t), real(t - 1))
    IN  CASE request.method = "diff" -> VSub(real(t), real(t - 1))
          [] request.method = "diff%" -> VMul(VInt(100), VSub(ratio, VOne))
          [] OTHER -> VMul(VInt(100), VSub(VMul(VMul(ratio, ratio), VMul(ratio, ratio)), VOne))

\* the change of a gathered component in nominal terms: its real change at
\* the deflator nominal / real of the period before
NominalChange(code, t) ==
    VMul(VDiv(ValueAt(code, "nominal", t - 1), ValueAt(code, "real", t - 1)),
         StatedRealChange(code, t))
Signed(code, x) == IF is_less(code, request.target) THEN VNeg(x) ELSE x
\* at period t the nominal changes of the gathered components are defined
\* and add up, the subtractive ones negated, to the aggregate's, which is
\* not zero
AddsUp(t) ==
    LET n == Len(result.components)
        change(j) == NominalChange(result.components[j], t)
    IN  /\ \A j \in 1..n : Defined(change(j))
        /\ ~IsZero(change(1))
        /\ VEq(VSum([j \in 1..(n - 1) |-> Signed(result.components[j + 1], change(j + 1))]),
               change(1))

ColumnsSumToAggregate(t) ==
    Same(VSum(Tail(result.vals[t])), result.vals[t][1])

AggregateReturned == request.op = "aggregate_nipa" /\ result.ok
InBaseYear(series) == {t \in 1..Len(series.idx) : Year(series.idx[t]) = base_year}
BaseYearMean(series) == MeanOver(series.vals, InBaseYear(series))

\* C2: the real level of the synthetic aggregate averaged over 2012 equals
\* its nominal level, the sum of the subcomponents' nominal levels,
\* averaged over 2012
C2_BaseYearIdentity ==
    AggregateReturned
        => Same(BaseYearMean(result.real), BaseYearMean(result.nominal))

\* a subcomponent is referenced to 2012: observed, in price, real and
\* nominal, in every period of 2012 the table has, and with the same
\* average real and nominal level over them
ReferencedToBaseYear(code) ==
    LET data == registry.data[code]
        periods == {p \in Range(result.nominal.idx) : Year(p) = base_year}
    IN  /\ \A p \in periods :
              Defined(At(data["real"], p)) /\ Defined(At(data["price"], p))
              /\ Defined(At(data["nominal"], p))
        /\ VEq(BaseYearMean(data["real"]), BaseYearMean(data["nominal"]))
\* the real levels and the prices of a subcomponent are positive
PositiveLevels(code) ==
    \A mtype \in {"real", "price"} :
        \A t \in 1..Len(registry.data[code][mtype].vals) :
            VSign(registry.data[code][mtype].vals[t]) > 0

\* C2 as amended: the identity holds when every subcomponent has positive
\* real levels and prices and is referenced to 2012
C2_BaseYearIdentityOfReferencedData ==
    (/\ AggregateReturned
     /\ \A i \in 1..Len(request.objs) :
           PositiveLevels(request.objs[i]) /\ ReferencedToBaseYear(request.objs[i]))
        => Same(BaseYearMean(result.real), BaseYearMean(result.nominal))

\* an aggregate of two subcomponents of positive levels referenced to 2012,
\* with chain weights that are not all one
C2_WitnessChained ==
    /\ AggregateReturned
    /\ Len(request.objs) = 2
    /\ \A i \in 1..Len(request.objs) :
          PositiveLevels(request.objs[i]) /\ ReferencedToBaseYear(request.objs[i])
    /\ InBaseYear(result.real) # {}
    /\ \E t \in 1..Len(result.weights) : ~VEq(result.weights[t], VOne)

(***************************************************************************)
(* Failure modes of the aggregate and of the features                      *)
(***************************************************************************)
\* the aggregate was asked for: returned or raised
AggregateCalled == request.op = "aggregate_nipa" /\ result # NoFeature
\* no subcomponent of the request has an observation in the base year
NoBaseYearObservation ==
    \A i \in 1..Len(request.objs) :
        \A mtype \in DOMAIN registry.data[request.objs[i]] :
            InBaseYear(registry.data[request.objs[i]][mtype]) = {}

\* C11: when the panel of the aggregate has no observation in its base
\* year, the chain weighter and the quantity index fail with an error
\* instead of returning series
C11_MissingBaseYearFails ==
    (AggregateCalled /\ request.objs # <<>> /\ NoBaseYearObservation)
        => ~result.ok

\* the periods a period-over-period chain weight is taken between: p and
\* the quarter after it, where every subcomponent of the request is a stock
\* observed in real level and price at both
ChainedPeriods ==
    {p \in UNION {Range(registry.data[c]["real"].idx) : c \in DOMAIN registry.data} :
        \A i \in 1..Len(request.objs) :
            /\ KindOf(request.objs[i]) = "stock"
            /\ \A q \in {p, p + 1} :
                  /\ Defined(At(registry.data[request.objs[i]]["real"], q))
                  /\ Defined(At(registry.data[request.objs[i]]["price"], q))}
\* the denominator of the Laspeyres factor of the chain weight of p + 1: the
\* real levels of p valued at the prices of p
LaspeyresDenominator(p) ==
    VSum([i \in 1..Len(request.objs) |->
            VMul(At(registry.data[request.objs[i]]["real"], p),
                 At(registry.data[request.objs[i]]["price"], p))])

\* C12: when the denominator of a chain weight is zero in some period the
\* aggregate fails with an error; it returns no series
C12_ZeroDenominatorFails ==
    (/\ AggregateCalled
     /\ request.objs # <<>>
     /\ \E p \in ChainedPeriods : VSign(LaspeyresDenominator(p)) = 0)
        => ~result.ok

\* a contribution was asked for: returned or raised
ContributionCalled == request.op = "contributions" /\ result # NoFeature
\* a balance among the aggregate and the components selected by the
\* request has a balance among its own subcomponents
NestedBalanceSelected ==
    LET sel == disaggregate(registry, request.target, request.subs, request.level)
        comps == <<request.target>> \o sel.subs
    IN  /\ sel.err = "none"
        /\ \E i \in 1..Len(comps) :
              /\ KindOf(comps[i]) = "balance"
              /\ \E j \in 1..Len(registry.comps[comps[i]].subs) :
                    KindOf(registry.comps[comps[i]].subs[j]) = "balance"

\* C13: a contribution decomposition over a balance that has a balance
\* among its subcomponents fails with an error; the nested balance is not
\* read as an ordinary stock
C13_NestedBalanceFails ==
    (ContributionCalled /\ NestedBalanceSelected) => ~result.ok

(***************************************************************************)
(* Properties of the transform accessor                                    *)
(***************************************************************************)
\* a transform was asked for: returned or raised
TransformCalled == request.op = "transform" /\ result # NoFeature
\* the wrapped series is what 'index' returned for some base
OnceRebased ==
    /\ Len(timeseries.via) = 1
    /\ timeseries.via[1].op = "transform"
    /\ timeseries.via[1].method = "index"
\* the values of a series in the rows of a base period
BasePeriodValues(data, base) ==
    LET locs == SeqOfSet(IF base.kind = "year"
                         THEN {t \in 1..Len(data.idx) : Year(data.idx[t]) = base.v}
                         ELSE {t \in 1..Len(data.idx) : data.idx[t] = base.v})
    IN  [i \in 1..Len(locs) |-> data.vals[locs[i]]]
SameSeries(a, b) ==
    /\ a.idx = b.idx
    /\ \A t \in 1..Len(a.vals) : Same(a.vals[t], b.vals[t])

\* C14: 'index' applied with base b to a series that is itself the result
\* of 'index' with base b returns that series again, and the mean of the
\* once rebased series over the rows of b is 100
C14_RebasingIdempotent ==
    (/\ OnceRebased
     /\ TransformCalled
     /\ request.method = "index"
     /\ request.base = timeseries.via[1].base)
        => /\ result.err = "none"
           /\ SameSeries(result, timeseries)
           /\ VEq(SkipNaMean(BasePeriodValues(timeseries, request.base)), VInt(100))

\* C20: a string method that is neither 'index' nor a registered name makes
\* the transform raise KeyError; no series is returned
C20_UnrecognizedMethodRaisesKeyError ==
    (TransformCalled /\ request.method \notin (RegisteredTransforms \cup {"index"}))
        => result.err = "KeyError" /\ result.vals = <<>>

\* a transform asked for by a name that is not registered has raised
C20_WitnessUnregistered ==
    /\ TransformCalled
    /\ request.method = "growth"
    /\ result.err = "KeyError"

(***************************************************************************)
(* Properties of the code functions                                        *)
(***************************************************************************)
\* the identifiers and the delimiters of a code, from first to last
IdsOf(code) == EdanCode(code).ids
DelimsOf(code) == EdanCode(code).delims

\* the numbers k >= 1 for which the last k identifiers of code are the
\* first k identifiers of other
OverlapLengths(code, other) ==
    LET c == IdsOf(code)
        o == IdsOf(other)
    IN  {k \in 1..Len(c) :
            /\ k <= Len(o)
            /\ \A j \in 1..k : c[Len(c) - k + j] = o[j]}
\* what is left of a code after its first k identifiers
Remainder(other, k) ==
    LET head == EdanCodeSlice(other, <<>>, <<k>>)
    IN  SubSeq(other, Len(head) + 1, Len(other))
ConcatCalled == request.op = "concat_codes" /\ result # NoFeature

\* C16: concat_codes returns other when other is descended from code; the
\* whole of code followed by the remainder of other when the last k
\* identifiers of code are the first k of other; code, the delimiter and
\* other when there is no overlap
C16_ConcatKeepsWholeCode ==
    (ConcatCalled /\ request.delim \in edan_delimiters)
        => /\ result.err = "none"
           /\ IF contains(request.code, request.other)
              THEN result.val = request.other
              ELSE IF OverlapLengths(request.code, request.other) # {}
              THEN \E k \in OverlapLengths(request.code, request.other) :
                      result.val = request.code \o Remainder(request.other, k)
              ELSE result.val = request.code \o <<request.delim>> \o request.other

\* the identifiers and delimiters of parent begin those of child
IdentifierPrefix(parent, child) ==
    /\ Len(IdsOf(parent)) <= Len(IdsOf(child))
    /\ \A i \in 1..Len(IdsOf(parent)) : IdsOf(parent)[i] = IdsOf(child)[i]
    /\ \A i \in 1..Len(DelimsOf(parent)) : DelimsOf(parent)[i] = DelimsOf(child)[i]
ContainsCalled == request.op = "contains" /\ result # NoFeature

\* C17: contains(parent, child) is true exactly when the identifiers and
\* delimiters of parent are a prefix of those of child
C17_ContainsIsIdentifierPrefix ==
    ContainsCalled
        => (result.val <=> IdentifierPrefix(request.code, request.other))

\* contains has answered no for a parent whose characters begin the child
\* but whose last identifier is only the beginning of the child's
C17_WitnessCharacterPrefix ==
    /\ ContainsCalled
    /\ Len(IdsOf(request.code)) = 2
    /\ Len(request.code) < Len(request.other)
    /\ SubSeq(request.other, 1, Len(request.code)) = request.code
    /\ ~result.val

\* the bounds of list[start:stop] on a list of n entries, counted from 0
Resolved(n, bound, omitted) ==
    IF bound = <<>> THEN omitted
    ELSE IF bound[1] < 0 THEN (IF n + bound[1] < 0 THEN 0 ELSE n + bound[1])
    ELSE IF bound[1] > n THEN n ELSE bound[1]
\* identifiers lo .. hi - 1 (counted from 0) of a code, joined by the
\* delimiters between them
Joined(code, lo, hi) ==
    IF lo >= hi THEN <<>>
    ELSE Flatten([i \in 1..(2 * (hi - lo) - 1) |->
                     IF i % 2 = 1 THEN IdsOf(code)[lo + (i + 1) \div 2]
                     ELSE <<DelimsOf(code)[lo + i \div 2]>>])

\* C18: code[i] is the i-th identifier, counted from the end for negative
\* i; code[a:b] is the identifiers a .. b-1 of Python's slice joined by
\* the delimiters between them
C18_IndexingByIdentifier ==
    LET n == Len(IdsOf(request.code))
    IN  /\ (request.op = "getitem" /\ result # NoFeature
            /\ request.key >= -n /\ request.key < n)
               => /\ result.err = "none"
                  /\ result.val = IdsOf(request.code)[IF request.key >= 0
                                                      THEN request.key + 1
                                                      ELSE n + request.key + 1]
        /\ (request.op = "getslice" /\ result # NoFeature)
               => result.val = Joined(request.code,
                                      Resolved(n, request.start, 0),
                                      Resolved(n, request.stop, n))

\* a slice from a negative start to a negative stop has returned two
\* identifiers of a code of three and the delimiter between them
C18_WitnessNegativeSlice ==
    /\ request.op = "getslice" /\ result # NoFeature
    /\ Len(IdsOf(request.code)) = 3
    /\ request.start = <<-3>> /\ request.stop = <<-1>>
    /\ result.val = EdanCodeSlice(request.code, <<0>>, <<2>>)
    /\ result.val # <<>>

\* C19: every ':', '-' and '+' of a code string separates two identifiers,
\* so that 'a:b-c:d+e' has the identifiers a, b, c, d, e and the
\* delimiters ':', '-', ':', '+'
C19_DelimiterVocabulary ==
    (request.op = "EdanCode" /\ result # NoFeature)
        => /\ \A i \in 1..Len(result.val.ids) :
                 Range(result.val.ids[i]) \cap {":", "-", "+"} = {}
           /\ request.code = TestCode
                 => /\ result.val.ids = << <<"a">>, <<"b">>, <<"c">>, <<"d">>, <<"e">> >>
                    /\ result.val.delims = <<":", "-", ":", "+">>

(***************************************************************************)
(* Properties of the cached shares accessor                                *)
(***************************************************************************)
\* the subcomponents a caller's own arguments select
OwnSelection(c) ==
    disaggregate(registry, RootCode, invocation[c].subs, invocation[c].level)

\* a caller's computation has ended, and alone it would have returned a table
SharesAnswered(c) ==
    /\ invocation # NoInvocation
    /\ invocation[c].pc = "done"
    /\ OwnSelection(c).err = "none"
    /\ HasMeasure(registry, RootCode, invocation[c].mtype)
    /\ \A i \in 1..Len(OwnSelection(c).subs) :
          HasMeasure(registry, OwnSelection(c).subs[i], invocation[c].mtype)

\* C15: a shares computation through the cached accessor of a component
\* returns a table whose column labels are the aggregate's code followed by
\* the codes its own arguments select, whatever another shares call on the
\* same component does in between
C15_SharesLabelledByOwnSelection ==
    \A c \in Callers :
        SharesAnswered(c) =>
            /\ invocation[c].out.err = "none"
            /\ invocation[c].out.cols = <<RootCode>> \o OwnSelection(c).subs

\* a named transform or modification has returned a series
NamedCalled ==
    /\ request.op \in {"transform", "modify"}
    /\ result # NoFeature
    /\ result.err = "none"
\* the periods per year a call works with
PerYear == IF request.h = 0 THEN periods_per_year ELSE request.h
\* x(t) - x(t-k), undefined in the first k periods
Difference(x, t, k) == IF t <= k THEN NaN ELSE VSub(x[t], x[t - k])
\* the sum of the last k observations, undefined in the first k-1 periods
MovingTotal(x, t, k) == IF t < k THEN NaN ELSE VSum([j \in 1..k |-> x[t - k + j]])

\* C21: with lag n and h periods per year (the periods per year of the data
\* when h is 0), 'diff' is x(t)-x(t-n), 'difa' is (h/n)*(x(t)-x(t-n)),
\* 'difv' is (x(t)-x(t-n))/n, 'yryr' is x(t)-x(t-h) and 'movt' is the sum
\* of the last n observations; the result has the periods of x and is
\* undefined in the first n periods (h for 'yryr', n-1 for 'movt')
C21_NamedTransforms ==
    (NamedCalled /\ request.method \in {"diff", "difa", "difv", "yryr", "movt"})
        => LET x == timeseries.vals
               n == request.n
               h == PerYear
               stated(t) ==
                   CASE request.method = "diff" -> Difference(x, t, n)
                     [] request.method = "difa" ->
                           VMul(VDiv(VInt(h), VInt(n)), Difference(x, t, n))
                     [] request.method = "difv" -> VDiv(Difference(x, t, n), VInt(n))
                     [] request.method = "yryr" -> Difference(x, t, h)
                     [] request.method = "movt" -> MovingTotal(x, t, n)
               undefined == CASE request.method = "yryr" -> h
                              [] request.method = "movt" -> n - 1
                              [] OTHER -> n
           IN  /\ result.idx = timeseries.idx
               /\ Len(result.vals) = Len(x)
               /\ \A t \in 1..Len(x) :
                     /\ Same(result.vals[t], stated(t))
                     /\ t <= undefined => IsNaN(result.vals[t])

\* a year-over-year change with h inferred, and a two-period moving total
\* of a modification, have a defined value
C21_WitnessLaggedValues ==
    /\ NamedCalled
    /\ \/ /\ request.method = "yryr" /\ request.h = 0
          /\ IsFin(result.vals[periods_per_year + 1])
       \/ /\ request.op = "modify" /\ request.method = "movt" /\ request.n = 2
          /\ IsFin(result.vals[2])

\* C22: 'yryr%' of the ModificationAccessor is 100*(x(t)/x(t-h) - 1), with h
\* the periods per year of the data unless passed, undefined in the first h
\* periods: the values 'yryr%' of the TransformationAccessor has on the
\* same series
C22_ModificationYearOverYearPercent ==
    (/\ request.op = "modify"
     /\ result # NoFeature
     /\ request.method = "yryr%")
        => LET x == timeseries.vals
               h == PerYear
               stated(t) ==
                   IF t <= h THEN NaN
                   ELSE VMul(VInt(100), VSub(VDiv(x[t], x[t - h]), VOne))
               transformed ==
                   TransformationAccessor(timeseries, "yryr%", request.n, request.h, NoBase)
           IN  /\ result.err = "none"
               /\ result.idx = timeseries.idx
               /\ \A t \in 1..Len(x) :
                     /\ Same(result.vals[t], stated(t))
                     /\ Same(result.vals[t], transformed.vals[t])

(***************************************************************************)
(* Properties of the chain weights                                         *)
(***************************************************************************)
\* the panels the chain weighter of the request works on
WeighterPanel == set_ctypes_and_data(registry, request.objs)
\* the running product of the returned weights
RawChain == CumProd(result.weights)
\* the real level is the raw chain scaled by one factor
ChainIsRunningProduct ==
    \A t \in 1..Len(result.weights) :
        Same(result.real.vals[t], VMul(result.real.vals[1], RawChain[t]))

\* C23 as stated: weight_0 = 1, weight_t^2 = Paasche_t * Laspeyres_t with
\* Paasche_t = sum(real_t*price_t)/sum(real_t*price_{t-1}) and
\* Laspeyres_t = sum(real_{t-1}*price_t)/sum(real_{t-1}*price_{t-1}), and
\* the raw chain is the running product of the weights
C23_ChainWeightsAsStated ==
    AggregateReturned
        => LET qty == WeighterPanel.real
               prc == WeighterPanel.price
               w == result.weights
           IN  /\ Len(w) = Len(qty)
               /\ Len(w) > 0 => VEq(w[1], VOne)
               /\ \A t \in 2..Len(w) :
                     LET paasche_t == VDiv(Dot(qty[t], prc[t]), Dot(qty[t], prc[t - 1]))
                         laspeyres_t == VDiv(Dot(qty[t - 1], prc[t]),
                                             Dot(qty[t - 1], prc[t - 1]))
                     IN  Same(VMul(w[t], w[t]), VMul(paasche_t, laspeyres_t))
               /\ ChainIsRunningProduct

\* C23 amended: the two factors are the quantity indices,
\* Paasche_t = sum(real_t*price_t)/sum(real_{t-1}*price_t) and
\* Laspeyres_t = sum(real_t*price_{t-1})/sum(real_{t-1}*price_{t-1})
C23_ChainWeightsOfQuantities ==
    AggregateReturned
        => LET qty == WeighterPanel.real
               prc == WeighterPanel.price
               w == result.weights
           IN  /\ Len(w) = Len(qty)
               /\ Len(w) > 0 => VEq(w[1], VOne)
               /\ \A t \in 2..Len(w) :
                     LET paasche_t == VDiv(Dot(qty[t], prc[t]), Dot(qty[t - 1], prc[t]))
                         laspeyres_t == VDiv(Dot(qty[t], prc[t - 1]),
                                             Dot(qty[t - 1], prc[t - 1]))
                     IN  Same(VMul(w[t], w[t]), VMul(paasche_t, laspeyres_t))
               /\ ChainIsRunningProduct

\* an aggregate of several components whose prices and real levels both
\* change between two periods, with a weight that is a number other than 1
C23_WitnessPricesAndQuantitiesMove ==
    /\ AggregateReturned
    /\ Len(request.objs) > 1
    /\ \E t \in 2..Len(result.weights) :
          /\ WeighterPanel.price[t] # WeighterPanel.price[t - 1]
          /\ WeighterPanel.real[t] # WeighterPanel.real[t - 1]
          /\ IsFin(result.weights[t])
          /\ ~VEq(result.weights[t], VOne)
          /\ IsFin(result.real.vals[t])

(***************************************************************************)
(* Properties of the alignment of the panels                               *)
(***************************************************************************)
\* the periods at which at least one of the series has a defined value
PartlyDefinedPeriods(frames) ==
    SeqOfSet({p \in UNION {Range(frames[j].idx) : j \in 1..Len(frames)} :
                 \E j \in 1..Len(frames) : ~IsNaN(At(frames[j], p))})
\* the gathered components of a contributions request
Gathered == gather_subs_collect_ctypes(registry, request.target, request.subs, request.level)
\* the series of the gathered components _data joins for a measure
GatheredFrames(mtype) ==
    [j \in 1..Len(Gathered.components) |->
        registry.data[Gathered.components[j]]
                     [IF Gathered.flows[j] THEN LevelMeasure(mtype) ELSE mtype]]
\* the real and price series of the items of an aggregate request
WeighterFrames ==
    LET items == Flatten([i \in 1..Len(request.objs) |->
                             IF registry.comps[request.objs[i]].kind = "balance"
                             THEN registry.comps[request.objs[i]].subs
                             ELSE <<request.objs[i]>>])
    IN  [j \in 1..Len(items) |-> registry.data[items[j]]["real"]]
        \o [j \in 1..Len(items) |-> registry.data[items[j]]["price"]]

\* C24: the aligned real/price panel of the chain weighter keeps every
\* period at which at least one subcomponent value is defined and drops
\* only the periods undefined for all items; so do the panels assembled
\* for contributions and for shares
C24_AlignmentKeepsPartlyDefinedPeriods ==
    /\ (AggregateCalled /\ WeighterPanel.err = "none")
          => WeighterPanel.idx = PartlyDefinedPeriods(WeighterFrames)
    /\ (ContributionCalled /\ result.ok /\ ~elemental(registry, request.target))
          => contribution_data(registry, Gathered, request.mtype).idx
                = PartlyDefinedPeriods(GatheredFrames(request.mtype))
    /\ (request.op = "shares" /\ result.ok /\ ~elemental(registry, request.target))
          => result.idx
                = PartlyDefinedPeriods([j \in 1..Len(result.cols) |->
                                           registry.data[result.cols[j]][request.mtype]])

(***************************************************************************)
(* Properties of the columns of the real-contribution table                *)
(***************************************************************************)
\* a real contribution has been asked of a component with subcomponents, and
\* nothing but the table of shares is left to go wrong: the selection, the
\* data, the growth transform and the periods are in order
RealSharesComputed ==
    /\ ContributionCalled
    /\ request.mtype = "real"
    /\ ~elemental(registry, request.target)
    /\ Gathered.err = "none"
    /\ RealShares(registry, Gathered).err = "none"
    /\ request.method \in RegisteredTransforms \cup {""}
    /\ Len(RealShares(registry, Gathered).raw) = Len(registry.data[request.target]["real"].idx)
\* the gathered components a selected component stands for: its children if
\* it is a balance, else itself
ItemsOf(code) ==
    IF registry.comps[code].kind = "balance" THEN registry.comps[code].subs ELSE <<code>>
\* the position among the gathered components of the first item of the
\* i-th selected component
FirstItem(i) ==
    LET RECURSIVE before(_)
        before(k) == IF k = 0 THEN 0 ELSE before(k - 1) + Len(ItemsOf(Gathered.codes[k]))
    IN  before(i - 1) + 1
\* the signed sum of the shares of the items of the i-th selected component
SignedShare(raw_row, i) ==
    LET code == Gathered.codes[i]
        items == ItemsOf(code)
    IN  VSum([k \in 1..Len(items) |->
                 IF is_less(items[k], request.target)
                 THEN VNeg(raw_row[FirstItem(i) + k - 1])
                 ELSE raw_row[FirstItem(i) + k - 1]])

\* C25: the real-contribution table has one column for the aggregate and
\* one per selected component, in the order of the selection; the column
\* of a balance component is the signed sum of its children's shares, and
\* every other selected component, subtractive ones too, keeps its own
C25_OneColumnPerSelectedComponent ==
    RealSharesComputed
        => LET raw == RealShares(registry, Gathered).raw
               selection == disaggregate(registry, request.target, request.subs,
                                         request.level).subs
           IN  /\ result.ok
               /\ result.cols = <<request.target>> \o selection
               /\ \A t \in 1..Len(result.shares) :
                     /\ Len(result.shares[t]) = Len(result.cols)
                     /\ \A i \in 2..Len(result.cols) :
                           IF registry.comps[result.cols[i]].kind = "balance"
                           THEN Same(result.shares[t][i], SignedShare(raw[t], i))
                           ELSE \/ Same(result.shares[t][i], raw[t][FirstItem(i)])
                                \/ Same(result.shares[t][i], VNeg(raw[t][FirstItem(i)]))

(***************************************************************************)
(* Properties of the price contributions                                   *)
(***************************************************************************)
\* a price contribution has been asked of a component with subcomponents
\* and its weighted inflation rates have been computed
InflationWeighted ==
    /\ ContributionCalled
    /\ request.mtype = "price"
    /\ Gathered.err = "none"
    /\ weighted_inflation(registry, Gathered).err = "none"
\* the value of the j-th gathered component's measure at a period
GatheredValue(mtype, j, p) == At(GatheredFrames(mtype)[j], p)
\* the j-th gathered component is a child of a selected balance component
BalanceChild(j) ==
    \E i \in 1..Len(Gathered.codes) :
        /\ registry.comps[Gathered.codes[i]].kind = "balance"
        /\ j \in FirstItem(i)..(FirstItem(i) + Len(ItemsOf(Gathered.codes[i])) - 1)
\* the weighted rates are the inflation rates between consecutive periods
\* of the panel times the nominal shares weight(j, r) of the row r the
\* rate starts from, subtractive children of balances with the sign flipped
WeightedBy(weight(_, _)) ==
    LET periods == contribution_data(registry, Gathered, "price").idx
        weighted == weighted_inflation(registry, Gathered).weighted
    IN  /\ Len(weighted) = Len(periods) - 1
        /\ \A r \in 1..Len(weighted) : \A j \in 1..Len(Gathered.components) :
              LET infl == VMul(VInt(100),
                               VSub(VDiv(GatheredValue("price", j, periods[r + 1]),
                                         GatheredValue("price", j, periods[r])),
                                    VOne))
                  stated == VMul(infl, weight(j, r))
              IN  IF BalanceChild(j)
                  THEN Same(weighted[r][j],
                            IF is_less(Gathered.components[j], request.target)
                            THEN VNeg(stated) ELSE stated)
                  ELSE Same(weighted[r][j], stated) \/ Same(weighted[r][j], VNeg(stated))

\* C26 as stated: the weight of a component's inflation rate between t-1
\* and t is its nominal share of the aggregate in the prior period t-1,
\* sign-flipped for subtractive balance children
C26_WeightIsPriorPeriodShare ==
    InflationWeighted
        => LET periods == contribution_data(registry, Gathered, "price").idx
               share(j, r) == VDiv(GatheredValue("nominal", j, periods[r]),
                                   GatheredValue("nominal", 1, periods[r]))
           IN  WeightedBy(share)

\* C26 amended: the weight is the component's nominal share of the
\* aggregate in the period t the rate ends in
C26_WeightIsCurrentPeriodShare ==
    InflationWeighted
        => LET periods == contribution_data(registry, Gathered, "price").idx
               share(j, r) == VDiv(GatheredValue("nominal", j, periods[r + 1]),
                                   GatheredValue("nominal", 1, periods[r + 1]))
           IN  WeightedBy(share)

\* a price contribution with a balance among the selection, in which the
\* nominal share of some component changes between two periods and its
\* price as well
C26_WitnessSharesMove ==
    /\ InflationWeighted
    /\ result.ok
    /\ \E j \in 2..Len(Gathered.components) : BalanceChild(j)
    /\ LET periods == contribution_data(registry, Gathered, "price").idx
           share(j, r) == VDiv(GatheredValue("nominal", j, periods[r]),
                               GatheredValue("nominal", 1, periods[r]))
       IN  \E r \in 1..(Len(periods) - 1) : \E j \in 2..Len(Gathered.components) :
              /\ IsFin(share(j, r)) /\ IsFin(share(j, r + 1))
              /\ ~VEq(share(j, r), share(j, r + 1))
              /\ ~VEq(GatheredValue("price", j, periods[r]),
                      GatheredValue("price", j, periods[r + 1]))
              /\ IsFin(weighted_inflation(registry, Gathered).weighted[r][j])

\* the price level the i-th selected component starts from: its first price
\* observation, or for a balance component the average of its children's,
\* weighted by their nominal levels
InitialPriceLevel(i) ==
    LET periods == contribution_data(registry, Gathered, "price").idx
        items == ItemsOf(Gathered.codes[i])
        nom(k) == GatheredValue("nominal", FirstItem(i) + k - 1, periods[1])
        prc(k) == GatheredValue("price", FirstItem(i) + k - 1, periods[1])
    IN  IF registry.comps[Gathered.codes[i]].kind = "balance"
        THEN VDiv(VSum([k \in 1..Len(items) |-> VMul(nom(k), prc(k))]),
                  VSum([k \in 1..Len(items) |-> nom(k)]))
        ELSE prc(1)

\* C27: before the growth transform is applied, the implied price level of
\* a component is at the first period its initial price level (for a
\* balance component the nominal-weighted average of its children's first
\* price indices), and each later value is the previous one times
\* (1 + weighted inflation(t)/100)
C27_PricePathAnchoredAtInitialLevel ==
    (InflationWeighted /\ price_path(registry, Gathered).err = "none")
        => LET path == price_path(registry, Gathered).vals
               rates == weighted_inflation(registry, Gathered).vals
           IN  /\ Len(path) = Len(rates)
               /\ \A i \in 1..Len(Gathered.codes) :
                     /\ i <= Len(path[1])
                     /\ Same(path[1][i], InitialPriceLevel(i))
                     /\ \A t \in 2..Len(path) :
                           Same(path[t][i],
                                VMul(path[t - 1][i],
                                     VAdd(VOne, VDiv(rates[t][i], VInt(100)))))

(***************************************************************************)
(* The CSWD index against the Carli and harmonic-mean indices              *)
(***************************************************************************)
CSWDReturned == call.formula = "cswd_index" /\ out.ok
CarliOfCall == CarliCompute(price, call.chained, call.base)
HarmonicMeanOfCall == HarmonicMeanCompute(price, call.chained, call.base)
Hundredth(v) == VDiv(v, VInt(100))
LinkRelative(s, t) == VDiv(s[t], s[t - 1])

\* C28: the series cswd_index returns is the geometric mean of the series
\* carli and harmonic_mean return for the same panel, mode and base: in
\* direct mode the square of CSWD(t)/100 equals Carli(t)/100 times
\* HarmonicMean(t)/100 at every period, in chained mode the square of each
\* CSWD link relative equals the product of the two link relatives
C28_CSWDIsGeometricMean ==
    (CSWDReturned /\ CarliOfCall.ok /\ HarmonicMeanOfCall.ok)
        => IF call.chained
           THEN \A t \in 2..Len(out.s) :
                   Same(VMul(LinkRelative(out.s, t), LinkRelative(out.s, t)),
                        VMul(LinkRelative(CarliOfCall.s, t),
                             LinkRelative(HarmonicMeanOfCall.s, t)))
           ELSE \A t \in 1..Len(out.s) :
                   Same(VMul(Hundredth(out.s[t]), Hundredth(out.s[t])),
                        VMul(Hundredth(CarliOfCall.s[t]),
                             Hundredth(HarmonicMeanOfCall.s[t])))

(***************************************************************************)
(* The aggregation tree                                                    *)
(***************************************************************************)
\* the first object has a strictly smaller level than every later object
RootIsLowest ==
    \A k \in 2..Len(objects) : objects[1].level < objects[k].level
\* the objects the loop has taken so far
Taken == {k \in 2..Len(objects) : k < cursor}
\* the nearest object before k with a strictly smaller level
Preceding(k) == {p \in 1..(k - 1) : objects[p].level < objects[k].level}
Nearest(k) == CHOOSE p \in Preceding(k) : \A q \in Preceding(k) : q <= p
\* the (object, place) pairs at which k stands in a subs list
Places(k) ==
    {pl \in (1..Len(objects)) \X (1..Len(objects)) :
        pl[2] <= Len(objects[pl[1]].subs) /\ objects[pl[1]].subs[pl[2]] = k}

\* C29: when the first object of the collection has a strictly smaller
\* level than every later one, after every step of construct_tree each
\* object taken so far stands in the subs of exactly one object, once, and
\* that object is the nearest preceding one of strictly smaller level; no
\* other object stands in any subs; every subs lists its objects in input
\* order; the work stack holds objects of strictly increasing level; no
\* step fails and the value returned is the first object
C29_TreeOfNearestLowerLevel ==
    (RootIsLowest /\ cursor >= 2)
        => /\ returned.err # "IndexError"
           /\ \A k \in Taken :
                 /\ Cardinality(Places(k)) = 1
                 /\ \A pl \in Places(k) : pl[1] = Nearest(k)
           /\ \A k \in (1..Len(objects)) \ Taken : Places(k) = {}
           /\ \A p \in 1..Len(objects) :
                 \A a, b \in 1..Len(objects[p].subs) :
                    a < b => objects[p].subs[a] < objects[p].subs[b]
           /\ stack # <<>> /\ stack[1] = 1
           /\ \A a \in 1..(Len(stack) - 1) :
                 objects[stack[a]].level < objects[stack[a + 1]].level
           /\ returned.err = "none" => returned.root = 1

\* a tree has been returned in which a step popped more than one object off
\* the stack and some object has several subs
C29_WitnessPopsAndSiblings ==
    /\ RootIsLowest /\ returned.err = "none"
    /\ Len(objects) = MaxObjs
    /\ \E k \in 2..(Len(objects) - 1) :
          /\ objects[k + 1].level < objects[k].level
          /\ Nearest(k + 1) < k - 1
    /\ \E p \in 1..Len(objects) : Len(objects[p].subs) >= 2

(***************************************************************************)
(* The shares of the real contributions where a nominal change is zero or  *)
(* undefined                                                               *)
(***************************************************************************)
\* the value of the j-th gathered component's measure at row t of the
\* panel _data joins for that measure
PanelValue(mtype, j, t) ==
    GatheredValue(mtype, j, contribution_data(registry, Gathered, mtype).idx[t])
\* the change of the real level of the j-th gathered component at row t:
\* the first difference of a stock, the second difference of a flow
ChangeOfReal(j, t) ==
    IF Gathered.flows[j]
    THEN IF t <= 2 THEN NaN
         ELSE VSub(VSub(PanelValue("real", j, t), PanelValue("real", j, t - 1)),
                   VSub(PanelValue("real", j, t - 1), PanelValue("real", j, t - 2)))
    ELSE IF t <= 1 THEN NaN
         ELSE VSub(PanelValue("real", j, t), PanelValue("real", j, t - 1))
\* the nominal change that change implies: the change of the real level at
\* the deflator of the row before
ImpliedNominalChange(j, t) ==
    IF t <= 1 THEN NaN
    ELSE VMul(VDiv(PanelValue("nominal", j, t - 1), PanelValue("real", j, t - 1)),
              ChangeOfReal(j, t))
ZeroOrUndefined(v) == IsNaN(v) \/ IsZero(v)

\* C30: in the shares the real contribution computes before signs and
\* balances, the aggregate's share is 1 at every period, and the share of a
\* gathered component is 0, not undefined, at every period where its own
\* or the aggregate's implied nominal change is zero or undefined; that is
\* so at the first period for every component and at the first two periods
\* for a flow
C30_ZeroShareWhereNoNominalChange ==
    RealSharesComputed
        => LET raw == RealShares(registry, Gathered).raw
           IN  \A t \in 1..Len(raw) :
                  /\ raw[t][1] = VOne
                  /\ \A j \in 2..Len(raw[t]) :
                        (\/ ZeroOrUndefined(ImpliedNominalChange(j, t))
                         \/ ZeroOrUndefined(ImpliedNominalChange(1, t))
                         \/ t = 1
                         \/ (t <= 2 /\ Gathered.flows[j]))
                            => raw[t][j] = VZero

\* shares were computed in which, at one period after the second, a stock
\* whose real level did not move has share 0 beside a component with a
\* share that is not 0, and a flow has share 0 at the second period while a
\* stock has not
C30_WitnessZeroBesideNonzero ==
    /\ RealSharesComputed
    /\ LET raw == RealShares(registry, Gathered).raw
       IN  /\ \E t \in 3..Len(raw) : \E j, k \in 2..Len(raw[t]) :
                 /\ IsZero(ImpliedNominalChange(j, t)) /\ raw[t][j] = VZero
                 /\ ~ZeroOrUndefined(raw[t][k])
           /\ Len(raw) >= 2
           /\ \E j, k \in 2..Len(raw[2]) :
                 /\ Gathered.flows[j] /\ raw[2][j] = VZero
                 /\ ~Gathered.flows[k] /\ ~ZeroOrUndefined(raw[2][k])

====
